---- MODULE Spec2Model ----
(***************************************************************************)
(* Verification model of the Auto-DFA engine (backend/python_imply/core):  *)
(* the DFA value type, the product construction engine (combine, invert,   *)
(* complete_dfa, minimize), the optimizer (cleanup), the atomic builders,  *)
(* the white-box validator, the atomic-DFA cache and the run() pipeline.   *)
(*                                                                         *)
(* State names are Python strings.  They are modelled as sequences of      *)
(* one-character strings, so that string equality, concatenation           *)
(* (f"{s1}|{s2}"), startswith("q") and sorted() behave as in the source.   *)
(***************************************************************************)
EXTENDS Integers, Sequences, FiniteSets, TLC

VARIABLES
    call,      \* the operation applied to the inputs ("none" before)
    A,         \* first input DFA
    B,         \* second input DFA (combine only)
    R,         \* the DFA the operation returned
    swapped,   \* the DFA whose accepting and non-accepting states were swapped
    design_spec, \* the LogicSpec handed to design
    architect,   \* the ArchitectAgent: cache, counters, ceiling, call log
    exception,   \* the exception the last design call raised ("none" if it returned)
    returned,    \* what run() returned: (dfa_obj, is_valid, error_msg)
    dfa_cache,   \* the DFACache handle, the rows of its database, the config files
    history,     \* the cache calls made so far, each with what it answered; in a
                 \* run, the calls to the validator and to the LLM service; in
                 \* minimize, the partitions after each pass of the refinement loop
    attempts,    \* the attempts of run()'s retry loops so far, each with its outcome
    same_object, \* whether the DFA an engine operation returned is the object it was given
    workers,     \* the batch workers: each one's position in design() and what it holds
    owner        \* an owner of a DFAGeneratorSystem: its position and its cache handle

vars == <<call, A, B, R, swapped, design_spec, architect, exception,
          returned, dfa_cache, history, attempts, same_object, workers, owner>>

\* the variables of the retry loops of run()
retryVars == <<attempts>>

\* the identity of an engine operation's result
identityVars == <<same_object>>

\* the variables of the worker processes and of the owners of a cache handle
procVars == <<workers, owner>>

\* the variables of run() and of the cache calls
storeVars == <<returned, dfa_cache, history>>

\* the variables of the design calls, untouched by the engine operations
designVars == <<design_spec, architect, exception>>

\* the variables of the engine operations, untouched by the design calls
engineVars == <<A, B, swapped>>

-----------------------------------------------------------------------------
(* Bounds of the model *)

\* longest input string the acceptance checks enumerate
MaxLen == 3

\* an input DFA of the unary engine operations has at most MaxSize states plus symbols
MaxSize == 4

\* an operand of combine has at most MaxPairSize states plus symbols
MaxPairSize == 3

\* longest target of a STARTS_WITH / ENDS_WITH / CONTAINS spec
MaxTarget == 3

\* longest input string the atomic DFAs are run on
MaxInput == 5

\* largest divisor of a DIVISIBLE_BY spec
MaxK == 3

\* most children of a composite node whose children are all leaves
MaxChildren == 2

\* a size ceiling low enough for the product pre-checks to refuse a tree
SmallCeiling == 4

\* most cache calls and store events in one behaviour
MaxOps == 4
\* the worker processes of a parallel batch that are followed
NWorkers == 3
\* the test cases in the chunk a batch worker is handed, at most
MaxCases == 4

\* the default of AUTO_DFA_MAX_PRODUCT_STATES
DEFAULT_MAX_PRODUCT_STATES == 2000

\* DFAGeneratorSystem.max_retries
max_retries == 3

\* DFARepairEngine.max_repair_attempts
max_repair_attempts == 3

-----------------------------------------------------------------------------
(* Python values *)

\* dict.get(...) without a default on a missing key
None == <<"None">>

\* code-point order of the characters that occur in state names
CharOrder ==
    <<"0", "1", "2", "3", "4", "5", "6", "7", "8", "9", "_",
      "a", "b", "c", "d", "e", "f", "g", "h", "i", "j", "k", "l", "m",
      "n", "o", "p", "q", "r", "s", "t", "u", "v", "w", "x", "y", "z", "|">>

Ord == [c \in {CharOrder[i] : i \in 1..Len(CharOrder)} |->
            CHOOSE i \in 1..Len(CharOrder) : CharOrder[i] = c]

\* Python's str < str
RECURSIVE StrLess(_, _)
StrLess(x, y) ==
    IF y = <<>> THEN FALSE
    ELSE IF x = <<>> THEN TRUE
    ELSE IF Head(x) = Head(y) THEN StrLess(Tail(x), Tail(y))
    ELSE Ord[Head(x)] < Ord[Head(y)]

\* insert x into the sorted list l, after its equals
RECURSIVE Insert(_, _)
Insert(x, l) ==
    IF l = <<>> THEN <<x>>
    ELSE IF StrLess(x, Head(l)) THEN <<x>> \o l
    ELSE <<Head(l)>> \o Insert(x, Tail(l))

\* sorted(list)
RECURSIVE sorted(_)
sorted(l) ==
    IF l = <<>> THEN <<>> ELSE Insert(l[Len(l)], sorted(SubSeq(l, 1, Len(l) - 1)))

\* sorted(alphabet): the symbols are one-character strings
RECURSIVE InsertSym(_, _)
InsertSym(x, l) ==
    IF l = <<>> THEN <<x>>
    ELSE IF Ord[x] < Ord[Head(l)] THEN <<x>> \o l
    ELSE <<Head(l)>> \o InsertSym(x, Tail(l))

RECURSIVE sorted_symbols(_)
sorted_symbols(l) ==
    IF l = <<>> THEN <<>>
    ELSE InsertSym(l[Len(l)], sorted_symbols(SubSeq(l, 1, Len(l) - 1)))

RECURSIVE SetToSeq(_)
SetToSeq(S) ==
    IF S = {} THEN <<>>
    ELSE LET x == CHOOSE x \in S : TRUE IN <<x>> \o SetToSeq(S \ {x})

\* sorted(set)
SortedSet(S) == sorted(SetToSeq(S))

\* set(list)
Range(l) == {l[i] : i \in 1..Len(l)}

\* str(i) for a non-negative integer
RECURSIVE IntStr(_)
IntStr(i) ==
    IF i < 10 THEN <<CharOrder[i + 1]>>
    ELSE IntStr(i \div 10) \o <<CharOrder[(i % 10) + 1]>>

\* d.get(s, {}).get(c): None when the state or the symbol has no entry
Get(d, s, c) ==
    IF s \in DOMAIN d /\ c \in DOMAIN d[s] THEN d[s][c] ELSE None

\* Python truthiness of `nxt`: None and the empty string are falsy
Truthy(n) == n # None /\ n # <<>>

\* all strings over the symbols of alphabet of length at most n
RECURSIVE StringsUpTo(_, _)
StringsUpTo(alphabet, n) ==
    IF n = 0 THEN {<<>>}
    ELSE LET S == StringsUpTo(alphabet, n - 1)
         IN  S \cup {s \o <<c>> : s \in S, c \in Range(alphabet)}

-----------------------------------------------------------------------------
(* core/models.py: the DFA value *)

\* DFA(states=..., alphabet=..., transitions=..., start_state=..., accept_states=...)
DFA(states, alphabet, transitions, start_state, accept_states) ==
    [states |-> states, alphabet |-> alphabet, transitions |-> transitions,
     start_state |-> start_state, accept_states |-> accept_states]

\* "no owner": no DFAGeneratorSystem has been created
NoOwner == [kind |-> "none", pc |-> "none", handle |-> "none", exc |-> "none"]

\* "no DFA": the value of a result that has not been produced
NoDFA == [states |-> <<>>, alphabet |-> <<>>, transitions |-> <<>>,
          start_state |-> None, accept_states |-> <<>>]

\* DFA.validate_integrity: construction raises unless start_state is in states
validate_integrity(dfa) == dfa.start_state \in Range(dfa.states)

\* DFA.accepts, from state `current_state` on
RECURSIVE AcceptsFrom(_, _, _)
AcceptsFrom(dfa, current_state, input_string) ==
    IF input_string = <<>> THEN current_state \in Range(dfa.accept_states)
    ELSE LET char == Head(input_string) IN
         IF char \notin Range(dfa.alphabet) THEN FALSE
         ELSE IF current_state \notin DOMAIN dfa.transitions THEN FALSE
         ELSE IF char \notin DOMAIN dfa.transitions[current_state] THEN FALSE
         ELSE AcceptsFrom(dfa, dfa.transitions[current_state][char], Tail(input_string))

accepts(dfa, input_string) == AcceptsFrom(dfa, dfa.start_state, input_string)

-----------------------------------------------------------------------------
(* core/product.py: ProductConstructionEngine *)

\* the literal state names the engine introduces
q_dead == <<"q", "_", "d", "e", "a", "d">>
q_trap == <<"q", "_", "t", "r", "a", "p">>
dead == <<"d", "e", "a", "d">>

\* str.startswith("q")
StartsWithQ(name) == name # <<>> /\ name # None /\ Head(name) = "q"

\* minimize, step 1: the states reachable from the start state (BFS closure)
RECURSIVE ReachableClosure(_, _)
ReachableClosure(dfa, seen) ==
    LET nxts == {Get(dfa.transitions, s, char) : s \in seen, char \in Range(dfa.alphabet)}
        new  == {nxt \in nxts : Truthy(nxt)} \ seen
    IN  IF new = {} THEN seen ELSE ReachableClosure(dfa, seen \cup new)

reachable(dfa) == ReachableClosure(dfa, {dfa.start_state})

\* minimize, step 2: accepting block first, then the rejecting block
InitialPartitions(dfa) ==
    LET accept_set == Range(dfa.accept_states) \cap reachable(dfa)
        reject_set == reachable(dfa) \ accept_set
    IN  (IF accept_set # {} THEN <<SortedSet(accept_set)>> ELSE <<>>)
        \o (IF reject_set # {} THEN <<SortedSet(reject_set)>> ELSE <<>>)

\* get_partition_idx: 0-based index of the first block that holds state, else -1
get_partition_idx(partitions, state) ==
    LET hits == {i \in 1..Len(partitions) : state \in Range(partitions[i])}
    IN  IF hits = {} THEN -1
        ELSE (CHOOSE i \in hits : \A j \in hits : i <= j) - 1

\* behavior_key of a state: the block index of its successor for each symbol
behavior_key(dfa, partitions, s) ==
    [k \in 1..Len(dfa.alphabet) |->
        LET nxt == Get(dfa.transitions, s, dfa.alphabet[k])
        IN  IF Truthy(nxt) THEN get_partition_idx(partitions, nxt) ELSE -1]

\* the distinct elements of a list in order of first occurrence (dict key order)
RECURSIVE FirstOccurrences(_)
FirstOccurrences(l) ==
    IF l = <<>> THEN <<>>
    ELSE LET init == FirstOccurrences(SubSeq(l, 1, Len(l) - 1))
         IN  IF l[Len(l)] \in Range(init) THEN init ELSE init \o <<l[Len(l)]>>

\* split.values() for one block p: its states grouped by behavior_key
SplitGroups(dfa, partitions, p) ==
    LET keys == FirstOccurrences([i \in 1..Len(p) |-> behavior_key(dfa, partitions, p[i])])
    IN  [g \in 1..Len(keys) |->
            sorted(SelectSeq(p, LAMBDA s : behavior_key(dfa, partitions, s) = keys[g]))]

\* one pass of the `while changed` loop over blocks from..Len(partitions)
RECURSIVE RefineFrom(_, _, _)
RefineFrom(dfa, partitions, from) ==
    IF from > Len(partitions) THEN <<>>
    ELSE LET p     == partitions[from]
             split == SplitGroups(dfa, partitions, p)
         IN  (IF Len(p) <= 1 \/ Len(split) <= 1 THEN <<p>> ELSE split)
             \o RefineFrom(dfa, partitions, from + 1)

\* a pass that reports a change and splits nothing
RefineRound_mut(dfa, partitions) == partitions

RefineRound(dfa, partitions) == RefineFrom(dfa, partitions, 1)

\* a refinement loop that stops after the accept/reject split
changed_mut(dfa, partitions) == FALSE

\* the flag `changed` after a pass: some block was split
changed(dfa, partitions) ==
    \E i \in 1..Len(partitions) :
        Len(partitions[i]) > 1 /\ Len(SplitGroups(dfa, partitions, partitions[i])) > 1

\* minimize, step 3: refine until a pass splits nothing
RECURSIVE Refine(_, _)
Refine(dfa, partitions) ==
    IF changed(dfa, partitions) THEN Refine(dfa, RefineRound(dfa, partitions))
    ELSE partitions

\* is_dead for block i (0-based): rejecting and closed under its successors
is_dead(dfa, partitions, i) ==
    LET rep == partitions[i + 1][1] IN
    /\ rep \notin (Range(dfa.accept_states) \cap reachable(dfa))
    /\ \A char \in Range(dfa.alphabet) :
          LET nxt == Get(dfa.transitions, rep, char)
          IN  ~(Truthy(nxt) /\ get_partition_idx(partitions, nxt) # i)

\* new_name of block i (0-based)
new_name(dfa, partitions, i) ==
    IF dfa.start_state \in Range(partitions[i + 1]) /\ StartsWithQ(dfa.start_state)
    THEN dfa.start_state
    ELSE IF is_dead(dfa, partitions, i) /\ Len(partitions) > 1 THEN dead
    ELSE <<"s">> \o IntStr(i)

\* state_map[s]: the new name of the block that holds s
state_map(dfa, partitions, s) == new_name(dfa, partitions, get_partition_idx(partitions, s))

\* minimize, step 4: one state per block; blocks that share a name share one entry
Reconstruct(dfa, partitions) ==
    LET n          == Len(partitions)
        accept_set == Range(dfa.accept_states) \cap reachable(dfa)
        new_states == [i \in 1..n |-> new_name(dfa, partitions, i - 1)]
        accIdx     == SelectSeq([i \in 1..n |-> i], LAMBDA i : partitions[i][1] \in accept_set)
        new_accept_states == [k \in 1..Len(accIdx) |-> new_states[accIdx[k]]]
        \* blocks that write new_transitions[name][char], in loop order
        writers(name, char) ==
            {i \in 1..n : /\ new_states[i] = name
                          /\ Truthy(Get(dfa.transitions, partitions[i][1], char))}
        last(S) == CHOOSE i \in S : \A j \in S : j <= i
        new_transitions ==
            [name \in Range(new_states) |->
                [char \in {c \in Range(dfa.alphabet) : writers(name, c) # {}} |->
                    state_map(dfa, partitions,
                              Get(dfa.transitions, partitions[last(writers(name, char))][1], char))]]
        new_start_state ==
            new_name(dfa, partitions, get_partition_idx(partitions, dfa.start_state))
    IN  DFA(sorted(new_states), dfa.alphabet, new_transitions, new_start_state,
            sorted(new_accept_states))

\* ProductConstructionEngine.minimize
minimize(dfa) ==
    IF dfa.states = <<>> THEN dfa
    ELSE Reconstruct(dfa, Refine(dfa, InitialPartitions(dfa)))

\* get_name(s1, s2) == f"{s1}|{s2}"
get_name(s1, s2) == s1 \o <<"|">> \o s2

\* dfa.transitions.get(curr, {}).get(char, "q_dead")
GetOrDead(d, s, c) == IF s \in DOMAIN d /\ c \in DOMAIN d[s] THEN d[s][c] ELSE q_dead

\* the successor pair of a product node on char
NextNode(dfa1, dfa2, node, char) ==
    <<GetOrDead(dfa1.transitions, node[1], char), GetOrDead(dfa2.transitions, node[2], char)>>

\* the inner `for char in alphabet` loop: append the unvisited successors
RECURSIVE Enqueue(_, _, _, _, _, _)
Enqueue(dfa1, dfa2, node, alphabet, k, qv) ==
    IF k > Len(alphabet) THEN qv
    ELSE LET next_node == NextNode(dfa1, dfa2, node, alphabet[k])
         IN  IF next_node \in qv.visited
             THEN Enqueue(dfa1, dfa2, node, alphabet, k + 1, qv)
             ELSE Enqueue(dfa1, dfa2, node, alphabet, k + 1,
                          [queue |-> Append(qv.queue, next_node),
                           visited |-> qv.visited \cup {next_node}])

\* the `while queue` loop: the product nodes in the order they are popped
RECURSIVE PopOrder(_, _, _, _, _)
PopOrder(dfa1, dfa2, alphabet, queue, visited) ==
    IF queue = <<>> THEN <<>>
    ELSE LET node == Head(queue)
             qv   == Enqueue(dfa1, dfa2, node, alphabet, 1,
                             [queue |-> Tail(queue), visited |-> visited])
         IN  <<node>> \o PopOrder(dfa1, dfa2, alphabet, qv.queue, qv.visited)

\* the DFA combine builds before it minimizes
raw_product(dfa1, dfa2, operation) ==
    LET alphabet   == sorted_symbols(dfa1.alphabet)
        start_node == <<dfa1.start_state, dfa2.start_state>>
        order      == PopOrder(dfa1, dfa2, alphabet, <<start_node>>, {start_node})
        name(i)    == get_name(order[i][1], order[i][2])
        is_accept(i) ==
            LET accept1 == order[i][1] \in Range(dfa1.accept_states)
                accept2 == order[i][2] \in Range(dfa2.accept_states)
            IN  IF operation = "AND" THEN accept1 /\ accept2
                ELSE IF operation = "OR" THEN accept1 \/ accept2
                ELSE FALSE
        names      == {name(i) : i \in 1..Len(order)}
        \* new_transitions[curr_name] = {} is re-assigned at every pop: the last wins
        lastPop(nm) == CHOOSE i \in 1..Len(order) :
                          name(i) = nm /\ \A j \in 1..Len(order) : name(j) = nm => j <= i
        new_transitions ==
            [nm \in names |->
                [char \in Range(alphabet) |->
                    LET nn == NextNode(dfa1, dfa2, order[lastPop(nm)], char)
                    IN  get_name(nn[1], nn[2])]]
        new_accept_states == {name(i) : i \in {j \in 1..Len(order) : is_accept(j)}}
    IN  DFA(SortedSet(names), alphabet, new_transitions,
            get_name(dfa1.start_state, dfa2.start_state), SortedSet(new_accept_states))

\* ProductConstructionEngine.combine raises ValueError on unequal alphabets
AlphabetMismatch(dfa1, dfa2) == Range(dfa1.alphabet) # Range(dfa2.alphabet)

\* combine that marks a product state accepting as OR does, whatever the operation
combine_mut(dfa1, dfa2, operation) == minimize(raw_product(dfa1, dfa2, "OR"))

\* ProductConstructionEngine.combine (defined when the alphabets are set-equal)
combine(dfa1, dfa2, operation) == minimize(raw_product(dfa1, dfa2, operation))

\* complete_dfa: some (state, symbol) has no transition
missing(dfa) ==
    \E state \in Range(dfa.states) : \E sym \in Range(dfa.alphabet) :
        ~(state \in DOMAIN dfa.transitions /\ sym \in DOMAIN dfa.transitions[state])

\* complete_dfa that routes the gaps to the trap without adding it to states
complete_dfa_mut(dfa) ==
    IF ~missing(dfa) THEN dfa
    ELSE DFA(dfa.states, dfa.alphabet,
             [s \in Range(dfa.states) |->
                 [sym \in Range(dfa.alphabet) |->
                     IF s \in DOMAIN dfa.transitions /\ sym \in DOMAIN dfa.transitions[s]
                     THEN dfa.transitions[s][sym] ELSE q_trap]],
             dfa.start_state, dfa.accept_states)

\* ProductConstructionEngine.complete_dfa
complete_dfa(dfa) ==
    IF ~missing(dfa) THEN dfa
    ELSE LET trap_state == q_trap
             new_states == IF trap_state \notin Range(dfa.states)
                           THEN dfa.states \o <<trap_state>> ELSE dfa.states
             \* {s: dict(...) for s in dfa.states}, then new_transitions[trap_state] = {}
             copied(s) == IF s = trap_state \/ s \notin DOMAIN dfa.transitions
                          THEN [c \in {} |-> None] ELSE dfa.transitions[s]
             new_transitions ==
                 [s \in Range(new_states) |->
                     [sym \in DOMAIN copied(s) \cup Range(dfa.alphabet) |->
                         IF sym \in DOMAIN copied(s) THEN copied(s)[sym] ELSE trap_state]]
         IN  DFA(sorted(new_states), dfa.alphabet, new_transitions, dfa.start_state,
                 dfa.accept_states)

\* the accept/non-accept swap: [s for s in states if s not in accept_states]
SwapAccept(dfa) ==
    DFA(dfa.states, dfa.alphabet, dfa.transitions, dfa.start_state,
        sorted(SelectSeq(dfa.states, LAMBDA s : s \notin Range(dfa.accept_states))))

\* ProductConstructionEngine.invert
invert(dfa) == SwapAccept(complete_dfa(dfa))

-----------------------------------------------------------------------------
(* core/optimizer.py: DFAOptimizer *)

\* the targets of dfa.transitions[state].items(), whatever the symbol
Dests(dfa, state) ==
    IF state \in DOMAIN dfa.transitions
    THEN {dfa.transitions[state][symbol] : symbol \in DOMAIN dfa.transitions[state]}
    ELSE {}

\* DFAOptimizer.find_reachable_states: BFS from the start over targets listed in states
RECURSIVE ReachableStates(_, _)
ReachableStates(dfa, seen) ==
    LET new == (UNION {Dests(dfa, current) : current \in seen} \cap Range(dfa.states)) \ seen
    IN  IF new = {} THEN seen ELSE ReachableStates(dfa, seen \cup new)

find_reachable_states(dfa) == ReachableStates(dfa, {dfa.start_state})

\* DFAOptimizer.find_productive_states: reverse BFS from the accept states
RECURSIVE ProductiveStates(_, _)
ProductiveStates(dfa, seen) ==
    LET new == {src \in DOMAIN dfa.transitions :
                   Dests(dfa, src) \cap seen \cap Range(dfa.states) # {}} \ seen
    IN  IF new = {} THEN seen ELSE ProductiveStates(dfa, seen \cup new)

find_productive_states(dfa) == ProductiveStates(dfa, Range(dfa.accept_states))

\* DFAOptimizer.find_useful_states
find_useful_states(dfa) == find_reachable_states(dfa) \cap find_productive_states(dfa)

\* a selection that keeps every productive state and forgets reachability
useful_states_mut(dfa) == find_productive_states(dfa)

\* cleanup, step 1: the useful states, or the reachable ones when none is useful
useful_states(dfa) ==
    IF find_useful_states(dfa) = {} THEN find_reachable_states(dfa)
    ELSE find_useful_states(dfa)

\* cleanup, step 2: some useful state has a transition that leaves the useful states
dead_state_needed(dfa) ==
    \E state \in useful_states(dfa) : Dests(dfa, state) \ useful_states(dfa) # {}

\* cleanup, step 3
final_states(dfa, keep_completeness) ==
    useful_states(dfa) \cup
        (IF keep_completeness /\ dead_state_needed(dfa) THEN {q_dead} ELSE {})

\* cleanup, step 4: cleaned_transitions[state][symbol]
cleaned_transition(dfa, keep_completeness, state, symbol) ==
    LET dead_state_name == q_dead
        final == final_states(dfa, keep_completeness)
    IN  IF state = dead_state_name THEN state
        ELSE IF state \in DOMAIN dfa.transitions
        THEN IF symbol \in DOMAIN dfa.transitions[state]
             THEN LET dest == dfa.transitions[state][symbol]
                  IN  IF dest \in final THEN dest
                      ELSE IF keep_completeness THEN dead_state_name
                      ELSE state
             ELSE IF keep_completeness
                  THEN (IF dead_state_needed(dfa) THEN dead_state_name ELSE state)
                  ELSE state
        ELSE IF keep_completeness /\ dead_state_needed(dfa) THEN dead_state_name
             ELSE state

\* DFAOptimizer.cleanup
cleanup(dfa, keep_completeness) ==
    IF dfa.states = <<>> THEN dfa
    ELSE LET final == final_states(dfa, keep_completeness)
             cleaned_transitions ==
                 [state \in final |->
                     [symbol \in Range(dfa.alphabet) |->
                         cleaned_transition(dfa, keep_completeness, state, symbol)]]
             cleaned_accept == SelectSeq(dfa.accept_states, LAMBDA s : s \in final)
             start_state == IF dfa.start_state \notin final
                            THEN (IF final # {} THEN SortedSet(final)[1]
                                  ELSE dfa.start_state)
                            ELSE dfa.start_state
         IN  DFA(SortedSet(final), dfa.alphabet, cleaned_transitions, start_state,
                 cleaned_accept)

\* cleanup_dfa: cleanup with the default keep_completeness=True
cleanup_dfa(dfa) == cleanup(dfa, TRUE)

-----------------------------------------------------------------------------
(* core/repair.py: DFARepairEngine.try_inversion_fix builds the inverted DFA *)
(* directly from the candidate, without ProductConstructionEngine.invert     *)

inverted(dfa) ==
    DFA(dfa.states, dfa.alphabet, dfa.transitions, dfa.start_state,
        SelectSeq(dfa.states, LAMBDA s : s \notin Range(dfa.accept_states)))

-----------------------------------------------------------------------------
(* core/agents.py: the atomic builders *)

\* f"q{i}" and f"r{r}"
q0 == <<"q", "0">>
qname(i) == <<"q">> \o IntStr(i)
rname(i) == <<"r">> \o IntStr(i)

\* [f"q{i}" for i in range(n)]
QStates(n) == [i \in 1..n |-> qname(i - 1)]

\* build_starts_with_dfa
build_starts_with_dfa(alphabet, pattern) ==
    LET n            == Len(pattern)
        states       == QStates(n + 1) \o <<q_dead>>
        accept_state == qname(n)
        Row(s) ==
            [sym \in Range(alphabet) |->
                IF s = q_dead THEN q_dead
                ELSE IF s = accept_state THEN accept_state
                ELSE LET i == CHOOSE i \in 0..(n - 1) : qname(i) = s
                     IN  IF sym = pattern[i + 1] THEN qname(i + 1) ELSE q_dead]
    IN  DFA(states, alphabet, [s \in Range(states) |-> Row(s)], qname(0), <<accept_state>>)

\* the `while k > 0 and pattern[k] != c: k = pi[k - 1]` loop (pi is 1-based here)
RECURSIVE FallBack(_, _, _, _)
FallBack(pattern, pi, k, c) ==
    IF k > 0 /\ pattern[k + 1] # c THEN FallBack(pattern, pi, pi[k], c) ELSE k

\* the KMP failure function pi of the first n characters of pattern
RECURSIVE FailureFunction(_, _)
FailureFunction(pattern, n) ==
    IF n = 0 THEN <<>>
    ELSE IF n = 1 THEN <<0>>
    ELSE LET pi == FailureFunction(pattern, n - 1)
             k  == FallBack(pattern, pi, pi[n - 1], pattern[n])
         IN  Append(pi, IF pattern[k + 1] = pattern[n] THEN k + 1 ELSE k)

\* next_len(j, c): the `while j > 0 and (j >= m or pattern[j] != c)` loop, then the step
RECURSIVE NextLenLoop(_, _, _, _)
NextLenLoop(pattern, pi, j, c) ==
    IF j > 0 /\ (j >= Len(pattern) \/ pattern[j + 1] # c)
    THEN NextLenLoop(pattern, pi, pi[j], c)
    ELSE j

\* next_len without the failure function: a mismatch restarts at length 0
next_len_mut(pattern, j, c) ==
    IF j < Len(pattern) /\ pattern[j + 1] = c THEN j + 1 ELSE 0

next_len(pattern, j, c) ==
    LET m  == Len(pattern)
        j2 == NextLenLoop(pattern, FailureFunction(pattern, m), j, c)
    IN  IF j2 < m /\ pattern[j2 + 1] = c THEN j2 + 1 ELSE j2

\* build_substring_dfa
build_substring_dfa(alphabet, pattern, match_at_end_only, sink_on_full) ==
    LET m            == Len(pattern)
        states       == QStates(m + 1)
        accept_state == qname(m)
        Row(j) ==
            [sym \in Range(alphabet) |->
                IF j = m /\ ~match_at_end_only THEN qname(j)
                ELSE qname(next_len(pattern, j, sym))]
        transitions  == [s \in Range(states) |-> Row(CHOOSE j \in 0..m : qname(j) = s)]
        accept_states ==
            IF match_at_end_only THEN <<accept_state>>
            ELSE IF sink_on_full THEN QStates(m)
            ELSE <<accept_state>>
    IN  DFA(states, alphabet, transitions, qname(0), accept_states)

\* mapping = {sym: idx for idx, sym in enumerate(alphabet)}: the last index wins
SymIndex(alphabet, sym) ==
    (CHOOSE i \in 1..Len(alphabet) :
        alphabet[i] = sym /\ \A j \in 1..Len(alphabet) : alphabet[j] = sym => j <= i) - 1

\* build_divisible_by_dfa (k >= 1)
build_divisible_by_dfa(alphabet, k) ==
    LET base   == Len(alphabet)
        states == [i \in 1..k |-> rname(i - 1)]
        Row(rr) ==
            [sym \in Range(alphabet) |-> rname((rr * base + SymIndex(alphabet, sym)) % k)]
    IN  DFA(states, alphabet,
            [s \in Range(states) |-> Row(CHOOSE rr \in 0..(k - 1) : rname(rr) = s)],
            rname(0), <<rname(0)>>)

\* build_exact_length_dfa: q0 .. qn count the symbols read, q{n+1} is the sink
build_exact_length_dfa(alphabet, n) ==
    LET states == QStates(n + 2)
        Row(i) == [sym \in Range(alphabet) |-> IF i < n THEN qname(i + 1) ELSE qname(n + 1)]
    IN  DFA(states, alphabet,
            [s \in Range(states) |-> Row(CHOOSE i \in 0..(n + 1) : qname(i) = s)],
            q0, <<qname(n)>>)

\* build_min_length_dfa: q0 .. qn, and qn loops
build_min_length_dfa(alphabet, n) ==
    LET states == QStates(n + 1)
        Row(i) == [sym \in Range(alphabet) |-> IF i < n THEN qname(i + 1) ELSE qname(n)]
    IN  DFA(states, alphabet,
            [s \in Range(states) |-> Row(CHOOSE i \in 0..n : qname(i) = s)],
            q0, <<qname(n)>>)

\* build_max_length_dfa: q0 .. qn accept, q{n+1} is the sink
build_max_length_dfa(alphabet, n) ==
    LET states == QStates(n + 2)
        Row(i) == [sym \in Range(alphabet) |-> IF i < n THEN qname(i + 1) ELSE qname(n + 1)]
    IN  DFA(states, alphabet,
            [s \in Range(states) |-> Row(CHOOSE i \in 0..(n + 1) : qname(i) = s)],
            q0, QStates(n + 1))

\* build_count_mod_k_dfa (k >= 1): one state per residue of the count of
\* target_symbol; every other symbol loops
build_count_mod_k_dfa(alphabet, target_symbol, k, r) ==
    LET states == QStates(k)
        Row(i) ==
            [sym \in Range(alphabet) |->
                qname((i + (IF <<sym>> = target_symbol THEN 1 ELSE 0)) % k)]
    IN  DFA(states, alphabet,
            [s \in Range(states) |-> Row(CHOOSE i \in 0..(k - 1) : qname(i) = s)],
            q0, <<qname(r % k)>>)

-----------------------------------------------------------------------------
(* core/models.py: LogicSpec, and core/validator.py: DeterministicValidator *)

\* LogicSpec(logic_type=..., target=..., alphabet=..., children=[...])
LogicSpec(logic_type, target, alphabet, children) ==
    [logic_type |-> logic_type, target |-> target, alphabet |-> alphabet,
     children |-> children]

\* str.startswith, str.endswith and the `in` operator on strings
startswith(s, t) == Len(t) <= Len(s) /\ SubSeq(s, 1, Len(t)) = t
endswith(s, t) == Len(t) <= Len(s) /\ SubSeq(s, Len(s) - Len(t) + 1, Len(s)) = t
contains(s, t) ==
    \E i \in 0..(Len(s) - Len(t)) : SubSeq(s, i + 1, i + Len(t)) = t

\* t.split(":")
RECURSIVE split(_)
split(t) ==
    IF \A i \in 1..Len(t) : t[i] # ":" THEN <<t>>
    ELSE LET i == CHOOSE i \in 1..Len(t) :
                      t[i] = ":" /\ \A j \in 1..(i - 1) : t[j] # ":"
         IN  <<SubSeq(t, 1, i - 1)>> \o split(SubSeq(t, i + 1, Len(t)))

\* s.count(sub): the non-overlapping occurrences of sub in s
RECURSIVE count(_, _)
count(s, sub) ==
    IF sub = <<>> THEN Len(s) + 1
    ELSE IF Len(s) < Len(sub) THEN 0
    ELSE IF startswith(s, sub) THEN 1 + count(SubSeq(s, Len(sub) + 1, Len(s)), sub)
    ELSE count(Tail(s), sub)

\* str.isdigit() for a one-character string
isdigit(c) == c \in {"0", "1", "2", "3", "4", "5", "6", "7", "8", "9"}

\* does int(t) succeed (t a string of decimal digits; no sign, no blanks)
IsInt(t) == t # None /\ t # <<>> /\ \A i \in 1..Len(t) : isdigit(t[i])

\* int(val_s, base) for a string of digit characters, 0 for the empty string
RECURSIVE int(_, _)
int(val_s, base) ==
    IF val_s = <<>> THEN 0
    ELSE int(SubSeq(val_s, 1, Len(val_s) - 1), base) * base + (Ord[val_s[Len(val_s)]] - 1)

\* get_truth, DIVISIBLE_BY branch: how the validator reads s as a number
DivisibleTruth(s, t, alpha) ==
    IF ~IsInt(t) THEN FALSE
    ELSE LET t_int == int(t, 10) IN
         IF Range(alpha) = {"0", "1"}
         THEN t_int # 0 /\ int(s, 2) % t_int = 0
         ELSE IF Len(alpha) = 2
         THEN LET val_s == [i \in 1..Len(s) |->
                               IF s[i] = alpha[2] THEN "1" ELSE "0"]
              IN  t_int # 0 /\ int(val_s, 2) % t_int = 0
         ELSE IF \A i \in 1..Len(alpha) : isdigit(alpha[i])
         THEN t_int # 0 /\ int(s, 10) % t_int = 0
         ELSE FALSE

\* get_truth, COUNT_MOD branch: the target is read as "symbol:r:k" and, when that
\* reading does not hold, as "symbol:k:r"; any exception gives False
CountModTruth(s, t) ==
    IF t = None \/ Len(split(t)) # 3 THEN FALSE
    ELSE LET parts == split(t) IN
         IF ~IsInt(parts[2]) \/ ~IsInt(parts[3]) THEN FALSE
         ELSE LET r == int(parts[2], 10)
                  k == int(parts[3], 10)
              IN  IF k = 0 THEN FALSE
                  ELSE IF count(s, parts[1]) % k = r % k THEN TRUE
                  ELSE IF r = 0 THEN FALSE
                  ELSE count(s, parts[1]) % r = k % r

\* DeterministicValidator.get_truth
RECURSIVE get_truth(_, _)
get_truth(s, spec) ==
    LET lt == spec.logic_type
        t  == spec.target
    IN  CASE lt = "AND" -> get_truth(s, spec.children[1]) /\ get_truth(s, spec.children[2])
          [] lt = "OR"  -> get_truth(s, spec.children[1]) \/ get_truth(s, spec.children[2])
          [] lt = "NOT" -> ~get_truth(s, spec.children[1])
          [] lt = "STARTS_WITH"     -> startswith(s, t)
          [] lt = "NOT_STARTS_WITH" -> ~startswith(s, t)
          [] lt = "ENDS_WITH"       -> endswith(s, t)
          [] lt = "NOT_ENDS_WITH"   -> ~endswith(s, t)
          [] lt = "CONTAINS"        -> contains(s, t)
          [] lt = "NOT_CONTAINS"    -> ~contains(s, t)
          [] lt = "DIVISIBLE_BY"    -> DivisibleTruth(s, t, spec.alphabet)
          [] lt = "NOT_DIVISIBLE_BY" -> ~DivisibleTruth(s, t, spec.alphabet)
          [] lt = "EXACT_LENGTH"    -> IsInt(t) /\ Len(s) = int(t, 10)
          [] lt = "MIN_LENGTH"      -> IsInt(t) /\ Len(s) >= int(t, 10)
          [] lt = "MAX_LENGTH"      -> IsInt(t) /\ Len(s) <= int(t, 10)
          [] lt = "COUNT_MOD"       -> CountModTruth(s, t)
          [] lt = "ODD_COUNT"       -> t # None /\ count(s, t) % 2 # 0
          [] lt = "EVEN_COUNT"      -> t # None /\ count(s, t) % 2 = 0
          [] OTHER -> FALSE

\* does get_truth(s, spec) raise IndexError: AND and OR read children[0] and then,
\* unless `and` / `or` short-circuits, children[1]; NOT reads children[0]
RECURSIVE get_truth_raises(_, _)
get_truth_raises(s, spec) ==
    LET lt == spec.logic_type
        n  == Len(spec.children)
    IN  CASE lt = "AND" ->
                \/ n = 0
                \/ get_truth_raises(s, spec.children[1])
                \/ /\ get_truth(s, spec.children[1])
                   /\ (n < 2 \/ get_truth_raises(s, spec.children[2]))
          [] lt = "OR" ->
                \/ n = 0
                \/ get_truth_raises(s, spec.children[1])
                \/ /\ ~get_truth(s, spec.children[1])
                   /\ (n < 2 \/ get_truth_raises(s, spec.children[2]))
          [] lt = "NOT" -> n = 0 \/ get_truth_raises(s, spec.children[1])
          [] OTHER -> FALSE

-----------------------------------------------------------------------------
(* core/agents.py: ArchitectAgent *)

\* the agent: its persistent cache (key -> stored JSON), its telemetry counters,
\* its size ceiling, whether the cache store answers, a log of the calls design
\* makes (children it builds, operands it hands to combine, LLM calls), and what
\* call_ollama does: "none" for the stub that returns None, "down" for a
\* deployed service that raises LLMConnectionError, "error" for one that raises
\* another exception
ArchitectAgent(cache, max_product_states, cache_up) ==
    [cache |-> cache, cache_hits |-> 0, cache_misses |-> 0,
     max_product_states |-> max_product_states, cache_up |-> cache_up, log |-> <<>>,
     llm |-> "none"]

\* a Python dict that is handed to DFA(**dict): its fields and the Python type of
\* its "transitions" value ("dict", or "tuple"/"list" of (state, row) pairs)
Items(dfa, transitions_type) == [dfa |-> dfa, transitions_type |-> transitions_type]

\* json.dumps writes a tuple as an array, which json.loads reads back as a list
json_dumps(d) ==
    [d EXCEPT !.transitions_type = IF @ = "tuple" THEN "list" ELSE @]

\* DFA(**d) succeeds: "transitions" is a dict and validate_integrity passes
DFAValid(d) == d.transitions_type = "dict" /\ validate_integrity(d.dfa)

\* `spec.target or ""`
OrEmpty(target) == IF target = None THEN <<>> ELSE target

\* `spec.alphabet or ['0', '1']`
OrBinary(alphabet) == IF alphabet = <<>> THEN <<"0", "1">> ELSE alphabet

\* ArchitectAgent._get_atomic_spec_hash (the md5 of the tuple's text, taken as injective)
get_atomic_spec_hash(logic_type, target, alphabet_tuple) ==
    <<logic_type, target, alphabet_tuple>>

\* ArchitectAgent._get_cached_atomic_dfa: the agent afterwards and the dict or None
get_cached_atomic_dfa(self, logic_type, target, alphabet_tuple) ==
    LET cache_key == get_atomic_spec_hash(logic_type, target, alphabet_tuple)
    IN  IF self.cache_up /\ cache_key \in DOMAIN self.cache
        THEN [self   |-> [self EXCEPT !.cache_hits = @ + 1],
              result_is_none |-> FALSE, result |-> self.cache[cache_key]]
        ELSE [self   |-> [self EXCEPT !.cache_misses = @ + 1],
              result_is_none |-> TRUE, result |-> Items(NoDFA, "dict")]

\* ArchitectAgent._set_cached_atomic_dfa: the agent afterwards, and whether it raised
set_cached_atomic_dfa(self, logic_type, target, alphabet_tuple, dfa_tuple) ==
    LET cache_key == get_atomic_spec_hash(logic_type, target, alphabet_tuple)
    IN  IF self.cache_up
        THEN [self   |-> [self EXCEPT !.cache =
                             [k \in DOMAIN @ \cup {cache_key} |->
                                 IF k = cache_key THEN json_dumps(dfa_tuple) ELSE @[k]]],
              raised |-> FALSE]
        ELSE [self |-> [self EXCEPT !.log = Append(@,
                           [op |-> "RuntimeError: CACHE WRITE FAILED",
                            alphabet |-> alphabet_tuple, other |-> <<>>, spec |-> None,
                            sizes |-> <<>>])],
              raised |-> TRUE]

\* the kind-specific branches of _build_atomic_dfa and of design's non-cached
\* fallback: "ok" with the dict built, "raise" when the branch raises, "none" when
\* no branch matches the kind. t is the symbol EVEN_COUNT / ODD_COUNT count
AtomicBuilder(logic_type, t, alphabet) ==
    LET ok(d) == [outcome |-> "ok", d |-> Items(d, "dict")]
        raise == [outcome |-> "raise", d |-> Items(NoDFA, "dict")]
    IN  CASE logic_type = "STARTS_WITH" -> ok(build_starts_with_dfa(alphabet, t))
          [] logic_type = "CONTAINS"    -> ok(build_substring_dfa(alphabet, t, FALSE, FALSE))
          [] logic_type = "ENDS_WITH"   -> ok(build_substring_dfa(alphabet, t, TRUE, FALSE))
          [] logic_type = "DIVISIBLE_BY" ->
                IF IsInt(t) THEN ok(build_divisible_by_dfa(alphabet, int(t, 10))) ELSE raise
          [] logic_type = "EXACT_LENGTH" ->
                IF IsInt(t) THEN ok(build_exact_length_dfa(alphabet, int(t, 10))) ELSE raise
          [] logic_type = "MIN_LENGTH" ->
                IF IsInt(t) THEN ok(build_min_length_dfa(alphabet, int(t, 10))) ELSE raise
          [] logic_type = "MAX_LENGTH" ->
                IF IsInt(t) THEN ok(build_max_length_dfa(alphabet, int(t, 10))) ELSE raise
          [] logic_type = "COUNT_MOD" ->
                IF /\ Len(split(t)) = 3
                   /\ IsInt(split(t)[2])
                   /\ IsInt(split(t)[3])
                   /\ int(split(t)[3], 10) # 0
                THEN ok(build_count_mod_k_dfa(alphabet, split(t)[1],
                                              int(split(t)[3], 10), int(split(t)[2], 10)))
                ELSE raise
          [] logic_type \in {"EVEN_COUNT", "ODD_COUNT"} ->
                ok(build_count_mod_k_dfa(alphabet, t, 2,
                                         IF logic_type = "EVEN_COUNT" THEN 0 ELSE 1))
          [] logic_type = "NOT_STARTS_WITH" -> ok(invert(build_starts_with_dfa(alphabet, t)))
          [] logic_type = "NOT_ENDS_WITH" ->
                ok(invert(build_substring_dfa(alphabet, t, TRUE, FALSE)))
          [] logic_type = "NOT_CONTAINS" ->
                ok(invert(build_substring_dfa(alphabet, t, FALSE, FALSE)))
          [] OTHER -> [outcome |-> "none", d |-> Items(NoDFA, "dict")]

\* the default rejecting DFA: one state q0 that loops on every symbol
RejectAll(alphabet) ==
    DFA(<<q0>>, alphabet, [s \in {q0} |-> [sym \in Range(alphabet) |-> q0]], q0, <<>>)

\* _build_atomic_dfa, given the outcome b of its branch: a branch that raises
\* yields the default rejecting DFA with "transitions" as a tuple of pairs, and an
\* unmatched kind raises ValueError
BuiltOrDefault(b, alphabet) ==
    CASE b.outcome = "ok"    -> b
      [] b.outcome = "raise" ->
            [outcome |-> "ok",
             d |-> Items([RejectAll(alphabet) EXCEPT
                             !.transitions = <<<<q0, [sym \in Range(alphabet) |-> q0]>>>>],
                         "tuple")]
      [] OTHER -> [outcome |-> "raise", d |-> b.d]

\* ArchitectAgent._build_atomic_dfa
build_atomic_dfa(logic_type, target, alphabet) ==
    LET t_val == IF logic_type \in {"EVEN_COUNT", "ODD_COUNT"} /\ target = <<>>
                 THEN <<"1">> ELSE target
    IN  BuiltOrDefault(AtomicBuilder(logic_type, t_val, alphabet), alphabet)

\* propagation that stops at the node itself
propagate_alphabet_down_mut(spec, alphabet) == [spec EXCEPT !.alphabet = alphabet]

\* ArchitectAgent._propagate_alphabet_down (the tree afterwards)
RECURSIVE propagate_alphabet_down(_, _)
propagate_alphabet_down(spec, alphabet) ==
    [spec EXCEPT !.alphabet = alphabet,
                 !.children = [i \in 1..Len(@) |-> propagate_alphabet_down(@[i], alphabet)]]

\* flatten_children
RECURSIVE flatten_children(_)
flatten_children(spec) ==
    LET Flat(child) == IF child.logic_type = spec.logic_type /\ child.children # <<>>
                       THEN flatten_children(child) ELSE <<child>>
        F[i \in 0..Len(spec.children)] ==
            IF i = 0 THEN <<>> ELSE F[i - 1] \o Flat(spec.children[i])
    IN  F[Len(spec.children)]

\* max(a, b)
max(a, b) == IF a >= b THEN a ELSE b

\* estimate_states_for_spec
RECURSIVE estimate_states_for_spec(_)
estimate_states_for_spec(spec) ==
    LET lt == spec.logic_type
        t  == spec.target
        total[i \in 0..Len(spec.children)] ==
            IF i = 0 THEN 1
            ELSE IF total[i - 1] > 1000000 THEN total[i - 1]
            ELSE total[i - 1] * max(1, estimate_states_for_spec(spec.children[i]))
    IN  CASE lt \in {"AND", "OR"} -> total[Len(spec.children)]
          [] lt = "NOT" ->
                max(2, IF spec.children # <<>>
                       THEN estimate_states_for_spec(spec.children[1]) ELSE 2)
          [] lt \in {"STARTS_WITH", "ENDS_WITH", "CONTAINS"} ->
                IF t # None /\ t # <<>> THEN Len(t) + 1 ELSE 3
          [] lt = "NO_CONSECUTIVE" -> 3
          [] lt = "DIVISIBLE_BY" -> IF IsInt(t) THEN max(2, int(t, 10)) ELSE 10
          [] lt \in {"LENGTH_MOD", "COUNT_MOD"} ->
                IF t # None /\ IsInt(split(t)[Len(split(t))])
                THEN max(2, int(split(t)[Len(split(t))], 10)) ELSE 10
          [] lt \in {"PRODUCT_EVEN", "EVEN_COUNT", "ODD_COUNT"} -> 2
          [] OTHER -> 10

\* what a design call yields: the agent afterwards, and the DFA or the exception
Returned(self, dfa) == [self |-> self, dfa |-> dfa, error |-> "none"]
Raised(self, error) == [self |-> self, dfa |-> NoDFA, error |-> error]

\* child_dfas.sort(key=lambda pair: len(pair[1].states)): a stable sort
RECURSIVE SortBySize(_)
SortBySize(dfas) ==
    IF dfas = <<>> THEN <<>>
    ELSE LET init == SortBySize(SubSeq(dfas, 1, Len(dfas) - 1))
             x    == dfas[Len(dfas)]
             keep == SelectSeq(init, LAMBDA d : Len(d.states) <= Len(x.states))
             rest == SelectSeq(init, LAMBDA d : Len(d.states) > Len(x.states))
         IN  keep \o <<x>> \o rest

\* the combine loop without the check of the intermediate size
RECURSIVE CombineAll_mut(_, _, _, _)
CombineAll_mut(self, current, rest, operation) ==
    IF rest = <<>> THEN Returned(self, current)
    ELSE LET nxt == Head(rest)
             handed == [self EXCEPT !.log = Append(@,
                           [op |-> "combine", alphabet |-> current.alphabet,
                            other |-> nxt.alphabet, spec |-> None,
                            sizes |-> <<Len(current.states), Len(nxt.states)>>])]
         IN  IF AlphabetMismatch(current, nxt)
             THEN Raised(handed, "ValueError: Alphabet Mismatch")
             ELSE CombineAll_mut(handed, combine(current, nxt, operation), Tail(rest),
                                 operation)

\* design, AND/OR: the `for _, nxt in child_dfas[1:]` loop
RECURSIVE CombineAll(_, _, _, _)
CombineAll(self, current, rest, operation) ==
    IF rest = <<>> THEN Returned(self, current)
    ELSE LET nxt == Head(rest)
             handed == [self EXCEPT !.log = Append(@,
                           [op |-> "combine", alphabet |-> current.alphabet,
                            other |-> nxt.alphabet, spec |-> None,
                            sizes |-> <<Len(current.states), Len(nxt.states)>>])]
         IN  IF Len(current.states) * Len(nxt.states) > self.max_product_states
             THEN Raised(self, "ValueError: Intermediate product would exceed safe size")
             ELSE IF AlphabetMismatch(current, nxt)
             THEN Raised(handed, "ValueError: Alphabet Mismatch")
             ELSE CombineAll(handed, combine(current, nxt, operation), Tail(rest), operation)

RECURSIVE design(_, _)

\* design, AND/OR: the `for c in flat: dfa = self.design(c)` loop; built holds the
\* DFAs so far, and an exception of a child ends the loop
RECURSIVE DesignChildren(_, _, _, _)

\* the loop after one child's design call returned r
ChildDesigned(r, full_alphabet, flat, built) ==
    IF r.error # "none" THEN [self |-> r.self, child_dfas |-> built, error |-> r.error]
    ELSE DesignChildren(r.self, full_alphabet, Tail(flat), Append(built, r.dfa))

DesignChildren(self, full_alphabet, flat, built) ==
    IF flat = <<>> THEN [self |-> self, child_dfas |-> built, error |-> "none"]
    ELSE ChildDesigned(
             design([self EXCEPT !.log = Append(@,
                        [op |-> "design", alphabet |-> full_alphabet,
                         other |-> <<>>, spec |-> Head(flat), sizes |-> <<>>])],
                    Head(flat)),
             full_alphabet, flat, built)

\* design, the non-cached fallback, given the outcome b of the builder branch: the
\* DFA built, else the LLM is asked, outside any try; when call_ollama returns None
\* the trivial rejecting DFA is returned
FallbackResult(self, spec, a, b) ==
    LET asked == [self EXCEPT !.log = Append(@,
                     [op |-> "call_ollama", alphabet |-> a, other |-> <<>>, spec |-> spec,
                      sizes |-> <<>>])]
    IN  IF b.outcome = "ok" /\ DFAValid(b.d) THEN Returned(self, b.d.dfa)
        ELSE CASE self.llm = "down"  -> Raised(asked, "LLMConnectionError")
               [] self.llm = "error" -> Raised(asked, "Exception")
               [] OTHER -> Returned(asked, RejectAll(a))

\* design, the non-cached fallback
DesignFallback(self, spec) ==
    FallbackResult(self, spec, OrBinary(spec.alphabet),
                   AtomicBuilder(spec.logic_type, OrEmpty(spec.target),
                                 OrBinary(spec.alphabet)))

\* `tuple(sorted(spec.alphabet)) if spec.alphabet else ('0', '1')`
AlphabetTuple(spec) ==
    IF spec.alphabet # <<>> THEN sorted_symbols(spec.alphabet) ELSE <<"0", "1">>

\* design, cached path, after _set_cached_atomic_dfa: a write that raised, or a dict
\* that DFA(**dict) refuses, sends design on to the non-cached fallback
StoredResult(stored, d, spec) ==
    IF stored.raised \/ ~DFAValid(d) THEN DesignFallback(stored.self, spec)
    ELSE Returned(stored.self, d.dfa)

\* design, cached path, after _build_atomic_dfa on a miss
BuiltResult(self, built, spec) ==
    IF built.outcome = "raise" THEN DesignFallback(self, spec)
    ELSE StoredResult(set_cached_atomic_dfa(self, spec.logic_type, OrEmpty(spec.target),
                                            AlphabetTuple(spec), built.d),
                      built.d, spec)

\* design, cached path, after _get_cached_atomic_dfa: a hit is returned through
\* DFA(**dict), outside any try
CachedResult(got, spec) ==
    IF ~got.result_is_none
    THEN IF DFAValid(got.result) THEN Returned(got.self, got.result.dfa)
         ELSE Raised(got.self, "ValidationError")
    ELSE BuiltResult(got.self,
                     build_atomic_dfa(spec.logic_type, OrEmpty(spec.target),
                                      AlphabetTuple(spec)),
                     spec)

\* design, atomic kinds without children
DesignAtomic(self, spec) ==
    CachedResult(get_cached_atomic_dfa(self, spec.logic_type, OrEmpty(spec.target),
                                       AlphabetTuple(spec)),
                 spec)

\* design, NOT: the inverted DFA of the first child, or the child's exception
Inverted(r) == IF r.error # "none" THEN r ELSE Returned(r.self, invert(r.dfa))

\* design, AND/OR, after the children are built: sort by size and combine
Combined(kids, operation) ==
    IF kids.error # "none" THEN Raised(kids.self, kids.error)
    ELSE IF kids.child_dfas = <<>> THEN Raised(kids.self, "IndexError")
    ELSE CombineAll(kids.self, Head(SortBySize(kids.child_dfas)),
                    Tail(SortBySize(kids.child_dfas)), operation)

\* design, AND/OR, given the flattened children after propagation
DesignFlat(self, spec, full_alphabet, flat) ==
    LET estimated[i \in 0..Len(flat)] ==
            IF i = 0 THEN 1
            ELSE estimated[i - 1] * max(1, estimate_states_for_spec(flat[i]))
    IN  IF \E i \in 1..Len(flat) : estimated[i] > self.max_product_states
        THEN Raised(self, "ValueError: Product size estimate too large")
        ELSE Combined(DesignChildren(self, full_alphabet, flat, <<>>), spec.logic_type)

\* every element of a list of specs after _propagate_alphabet_down
PropagateAll(specs, alphabet) ==
    [i \in 1..Len(specs) |-> propagate_alphabet_down(specs[i], alphabet)]

\* ArchitectAgent.design
design(self, spec) ==
    IF spec.children = <<>> /\ spec.logic_type \notin {"AND", "OR", "NOT"}
    THEN DesignAtomic(self, spec)
    ELSE IF spec.logic_type = "NOT"
    THEN IF spec.children = <<>>
         THEN Raised(self, "ValueError: 'NOT' node missing children")
         ELSE Inverted(
                 design([self EXCEPT !.log = Append(@,
                            [op |-> "design", alphabet |-> OrBinary(spec.alphabet),
                             other |-> <<>>,
                             spec |-> propagate_alphabet_down(spec.children[1],
                                                              OrBinary(spec.alphabet)),
                             sizes |-> <<>>])],
                        propagate_alphabet_down(spec.children[1], OrBinary(spec.alphabet))))
    ELSE IF spec.logic_type \in {"AND", "OR"}
    THEN DesignFlat(self, spec, OrBinary(spec.alphabet),
                    PropagateAll(
                        flatten_children(
                            [spec EXCEPT !.children =
                                PropagateAll(@, OrBinary(spec.alphabet))]),
                        OrBinary(spec.alphabet)))
    ELSE DesignFallback(self, spec)

-----------------------------------------------------------------------------
(* core/validator.py: DeterministicValidator.validate *)

\* validate's simulation loop: a missing state or symbol entry is a crash
RECURSIVE Simulate(_, _, _)
Simulate(dfa, curr, s) ==
    IF s = <<>> THEN curr \in Range(dfa.accept_states)
    ELSE IF curr \notin DOMAIN dfa.transitions
            \/ Head(s) \notin DOMAIN dfa.transitions[curr]
         THEN FALSE
         ELSE Simulate(dfa, dfa.transitions[curr][Head(s)], Tail(s))

\* the (is_valid, message) pair: "Passed", "FAIL" with the failing strings, or the
\* text of an exception
Message(text, lines) == [text |-> text, lines |-> lines]

\* DeterministicValidator.validate
validate(dfa, spec) ==
    LET test_alphabet == OrBinary(dfa.alphabet)
        first == <<test_alphabet[1]>>
        last  == <<test_alphabet[Len(test_alphabet)]>>
        t     == spec.target
        test_inputs ==
            {<<>>, first, last, first \o last, last \o last}
            \cup (IF Truthy(t) /\ Len(t) < 10 THEN {t, t \o first, first \o t} ELSE {})
        simulated ==
            {s \in test_inputs : \A i \in 1..Len(s) : s[i] \in Range(dfa.alphabet)}
        error_log ==
            SortedSet({s \in simulated :
                          get_truth(s, spec) # Simulate(dfa, dfa.start_state, s)})
    IN  IF error_log = <<>>
        THEN [is_valid |-> TRUE, error_msg |-> Message("Passed", <<>>)]
        ELSE [is_valid |-> FALSE,
              error_msg |-> Message("FAIL",
                                    SubSeq(error_log, 1,
                                           IF Len(error_log) < 5 THEN Len(error_log) ELSE 5))]

-----------------------------------------------------------------------------
(* core/repair.py: DFARepairEngine.auto_repair_dfa *)

\* the clean_states of _basic_structural_cleanup
clean_states(data) ==
    LET kept == {st \in Range(data.states) : Len(st) < 15 /\ " " \notin Range(st)}
    IN  IF kept = {} THEN {q0, qname(1)} ELSE kept

\* _basic_structural_cleanup; first is clean_states[0], the element that
\* list(set(...)) happens to put first
basic_structural_cleanup(data, spec, first) ==
    LET alphabet == OrBinary(spec.alphabet)
        clean    == clean_states(data)
        start_state == IF data.start_state \in clean THEN data.start_state ELSE first
        accept_states == SelectSeq(data.accept_states, LAMBDA st : st \in clean)
        transitions ==
            [state \in clean |->
                [symbol \in Range(alphabet) |->
                    LET dest == Get(data.transitions, state, symbol)
                    IN  IF Truthy(dest) /\ dest \in clean THEN dest ELSE first]]
    IN  cleanup_dfa(DFA(SortedSet(clean), alphabet, transitions, start_state,
                        sorted(accept_states)))

\* the DFAs the LLM is taken to answer with in repair_with_llm: reject all, accept
\* all, and "ends with c" and "starts with c" for each symbol c; _parse_dfa_json
\* sets their alphabet to spec.alphabet
LLMResponses(alphabet) ==
    {RejectAll(alphabet), [RejectAll(alphabet) EXCEPT !.accept_states = <<q0>>]}
    \cup {build_substring_dfa(alphabet, <<c>>, TRUE, FALSE) : c \in Range(alphabet)}
    \cup {build_starts_with_dfa(alphabet, <<c>>) : c \in Range(alphabet)}

\* what a repair yields: the DFA (None as NoDFA), the exception, and the number
\* of requests _call_ollama sent to the LLM service
Repair(dfa, error, calls) == [dfa |-> dfa, error |-> error, calls |-> calls]

\* repair_with_llm: each pass of its loop begins with a request to the service.
\* It returns at pass k an answer that passed validate after cleanup_dfa (the
\* passes before got an empty, unparseable or invalid answer), raises
\* LLMConnectionError at pass k when the service is unreachable then, and returns
\* None after max_repair_attempts passes without a valid answer
repair_with_llm(spec) ==
    {Repair(d, "none", k) :
        d \in {c \in {cleanup_dfa(c) : c \in LLMResponses(spec.alphabet)} :
                  validate(c, spec).is_valid},
        k \in 1..max_repair_attempts}
    \cup {Repair(NoDFA, "LLMConnectionError", k) : k \in 1..max_repair_attempts}
    \cup {Repair(NoDFA, "none", max_repair_attempts)}

\* auto_repair_dfa: the DFA it returns, from the LLM or, when that raised
\* LLMConnectionError or returned None, from _basic_structural_cleanup
auto_repair_dfa(data, spec) ==
    {x \in repair_with_llm(spec) : x.dfa # NoDFA}
    \cup {Repair(basic_structural_cleanup(data, spec, first), "none", x.calls) :
             x \in {y \in repair_with_llm(spec) : y.dfa = NoDFA},
             first \in clean_states(data)}

-----------------------------------------------------------------------------
(* main.py: DFAGeneratorSystem.run *)

\* the LogicSpec object after design(spec): _propagate_alphabet_down has rewritten
\* the children in place
SpecAfterDesign(spec) ==
    IF spec.logic_type = "NOT" /\ spec.children # <<>>
    THEN [spec EXCEPT !.children[1] = propagate_alphabet_down(@, OrBinary(spec.alphabet))]
    ELSE IF spec.logic_type \in {"AND", "OR"}
    THEN [spec EXCEPT !.children = PropagateAll(@, OrBinary(spec.alphabet))]
    ELSE spec

\* `return dfa_obj, is_valid, error_msg`
Return(dfa_obj, is_valid, error_msg) ==
    [dfa_obj |-> dfa_obj, is_valid |-> is_valid, error_msg |-> error_msg]

\* before run() has returned
NotReturned == Return(NoDFA, FALSE, Message("none", <<>>))

\* run, step 4 with the repaired DFA validated again, which leaves the failed DFA
\* in dfa_obj whatever the second validation said
Repaired_mut(dfa_obj, repaired_dfa, v) == Return(dfa_obj, v.is_valid, v.error_msg)

\* run, step 4: the repaired DFA was validated again with outcome v
Repaired(dfa_obj, repaired_dfa, v) ==
    Return(IF v.is_valid THEN repaired_dfa ELSE dfa_obj, v.is_valid, v.error_msg)

\* what a run does: what it returns, and the calls it made to the validator and
\* to the LLM service of the repair engine, in order
Outcome(ret, trace) == [returned |-> ret, trace |-> trace]

\* run, steps 3 and 4: what run can do once design returned dfa_obj and validate
\* said v
Validated(dfa_obj, spec, v) ==
    IF v.is_valid THEN {Outcome(Return(dfa_obj, TRUE, v.error_msg), <<"validate">>)}
    ELSE {Outcome(Repaired(dfa_obj, x.dfa, validate(x.dfa, spec)),
                  <<"validate">> \o [i \in 1..x.calls |-> "_call_ollama"]
                                \o <<"validate">>) :
             x \in auto_repair_dfa(dfa_obj, spec)}

\* run, steps 2 to 4, given the outcome r of design: an exception of design is
\* returned as (None, False, str(e))
run(r, spec) ==
    IF r.error # "none" THEN {Outcome(Return(NoDFA, FALSE, Message(r.error, <<>>)), <<>>)}
    ELSE Validated(r.dfa, spec, validate(r.dfa, spec))

\* unify_alphabets_for_spec: the spec afterwards
RECURSIVE unify_alphabets_for_spec(_)
unify_alphabets_for_spec(spec) ==
    IF spec.children = <<>> THEN spec
    ELSE LET children == [i \in 1..Len(spec.children) |->
                             unify_alphabets_for_spec(spec.children[i])]
             child_alpha[i \in 0..Len(children)] ==
                 IF i = 0 THEN <<>>
                 ELSE child_alpha[i - 1] \o OrBinary(children[i].alphabet)
             merged == FirstOccurrences(child_alpha[Len(children)])
         IN  [spec EXCEPT
                 !.children = children,
                 !.alphabet = IF Len(merged) = 1
                              THEN <<merged[1], IF isdigit(merged[1]) THEN "1" ELSE "b">>
                              ELSE merged]

-----------------------------------------------------------------------------
(* core/cache.py: DFACache *)

\* str.strip() on a prompt
RECURSIVE strip(_)
strip(prompt) ==
    IF prompt # <<>> /\ Head(prompt) = " " THEN strip(Tail(prompt))
    ELSE IF prompt # <<>> /\ prompt[Len(prompt)] = " "
    THEN strip(SubSeq(prompt, 1, Len(prompt) - 1))
    ELSE prompt

\* str.lower() on a prompt over the letters a, b, A, B
lower(prompt) ==
    [i \in 1..Len(prompt) |->
        CASE prompt[i] = "A" -> "a" [] prompt[i] = "B" -> "b" [] OTHER -> prompt[i]]

\* _compute_prompt_hash without the normalisation
compute_prompt_hash_mut(prompt) == prompt

\* DFACache._compute_prompt_hash (the sha256 digest is taken as injective)
compute_prompt_hash(prompt) == lower(strip(prompt))

\* DFACache._compute_config_hash: a digest of the version tag and the config files
compute_config_hash(self) == <<self.model_version, self.config>>

\* DFACache.__init__ on a database with the given rows
DFACache(rows, model_version, config) ==
    [rows |-> rows, model_version |-> model_version, config |-> config,
     hits |-> 0, misses |-> 0, hit_keys |-> {}]

\* DFACache.get: the cache afterwards and the dict or None
DFACache_get(self, prompt) ==
    LET prompt_hash == compute_prompt_hash(prompt)
        config_hash == compute_config_hash(self)
    IN  IF /\ prompt_hash \in DOMAIN self.rows
           /\ self.rows[prompt_hash].model_version = self.model_version
           /\ self.rows[prompt_hash].config_hash = config_hash
        THEN [self |-> [self EXCEPT !.rows[prompt_hash].old = FALSE,
                                    !.rows[prompt_hash].access_count = @ + 1,
                                    !.hits = @ + 1,
                                    !.hit_keys = @ \cup {prompt_hash}],
              result_is_none |-> FALSE,
              result |-> self.rows[prompt_hash].dfa_data]
        ELSE [self |-> [self EXCEPT !.misses = @ + 1],
              result_is_none |-> TRUE,
              result |-> Items(NoDFA, "dict")]

\* DFACache.set: INSERT OR REPLACE on the primary key prompt_hash
DFACache_set(self, prompt, dfa_data, validation_result, error_msg) ==
    LET prompt_hash == compute_prompt_hash(prompt)
        row == [prompt |-> prompt, model_version |-> self.model_version,
                config_hash |-> compute_config_hash(self),
                dfa_data |-> json_dumps(dfa_data),
                validation_result |-> validation_result, error_msg |-> error_msg,
                old |-> FALSE,
                access_count |-> IF prompt_hash \in DOMAIN self.rows
                                 THEN self.rows[prompt_hash].access_count + 1 ELSE 1]
    IN  [self EXCEPT !.rows = [h \in DOMAIN @ \cup {prompt_hash} |->
                                  IF h = prompt_hash THEN row ELSE @[h]]]

\* DFACache.invalidate_by_model; the Optional[str] argument is {} for None and {v}
\* for the version v
invalidate_by_model(self, model_version) ==
    LET version == IF model_version = {} THEN self.model_version
                   ELSE CHOOSE v \in model_version : TRUE
    IN  [self EXCEPT !.rows = [h \in {g \in DOMAIN @ : @[g].model_version # version} |->
                                  @[h]]]

\* DFACache.invalidate_old_entries(max_age_days=30); a row is old once 30 days
\* have passed since it was last written or read
invalidate_old_entries(self) ==
    [self EXCEPT !.rows = [h \in {g \in DOMAIN @ : ~@[g].old} |-> @[h]]]

-----------------------------------------------------------------------------
(* The input DFAs of the engine operations *)

q1 == <<"q", "1">>
s1 == <<"s", "1">>

\* state names of the inputs: ordinary ones and the ones the engine itself introduces
NamePool == {q0, s1, q_dead, q_trap, dead}

\* alphabets of the inputs
Alphabets == {<<"a">>, <<"a", "b">>}

\* dicts {symbol: target} over part of the alphabet
PartialRows(names, symbols) == UNION {[D -> names] : D \in SUBSET symbols}

\* every DFA value with the given states and alphabet whose transitions are
\* total or partial and whose start state, targets and accept states are states
DFAsOver(names, alphabet) ==
    {DFA(SortedSet(names), alphabet, t, start, SortedSet(acc)) :
        t \in [names -> PartialRows(names, Range(alphabet))],
        start \in names,
        acc \in SUBSET names}

\* "no spec": design has not been handed a LogicSpec
NoSpec == LogicSpec("none", None, <<>>, <<>>)

\* the input DFAs with at most size states plus symbols
InputDFAs(pool, alphabets, size) ==
    UNION {DFAsOver(names, alphabet) :
              <<names, alphabet>> \in
                  {na \in (SUBSET pool \ {{}}) \X alphabets :
                      Cardinality(na[1]) + Len(na[2]) <= size}}

\* which `return` an operation takes: `return dfa`, the object it was given
\* (complete_dfa on a DFA without gaps, minimize and cleanup on a DFA without
\* states), or `return DFA(...)`, a new object (invert and combine always)
returns_argument(operation, dfa) ==
    CASE operation = "complete_dfa" -> ~missing(dfa)
      [] operation \in {"minimize", "cleanup"} -> dfa.states = <<>>
      [] OTHER -> FALSE

-----------------------------------------------------------------------------
(* SpecEngine: one engine operation applied to one input DFA *)

InitEngine ==
    /\ call = "none"
    /\ A \in InputDFAs(NamePool, Alphabets, MaxSize)
    /\ B = NoDFA
    /\ R = NoDFA
    /\ swapped = NoDFA
    /\ design_spec = NoSpec
    /\ architect = ArchitectAgent(<<>>, DEFAULT_MAX_PRODUCT_STATES, TRUE)
    /\ exception = "none"
    /\ returned = NotReturned
    /\ dfa_cache = DFACache(<<>>, "v1", "patterns")
    /\ history = <<>>
    /\ attempts = <<>>
    /\ same_object = FALSE
    /\ workers = <<>>
    /\ owner = NoOwner

Minimize ==
    /\ call = "none"
    /\ call' = "minimize"
    /\ R' = minimize(A)
    /\ same_object' = returns_argument("minimize", A)
    /\ UNCHANGED <<A, B, swapped, designVars, storeVars, retryVars, procVars>>

Complete ==
    /\ call = "none"
    /\ call' = "complete_dfa"
    /\ R' = complete_dfa(A)
    /\ same_object' = returns_argument("complete_dfa", A)
    /\ UNCHANGED <<A, B, swapped, designVars, storeVars, retryVars, procVars>>

Invert ==
    /\ call = "none"
    /\ call' = "invert"
    /\ R' = invert(A)
    /\ swapped' = complete_dfa(A)
    /\ same_object' = returns_argument("invert", A)
    /\ UNCHANGED <<A, B, designVars, storeVars, retryVars, procVars>>

Cleanup ==
    /\ call = "none"
    /\ \E keep_completeness \in BOOLEAN :
          /\ call' = IF keep_completeness THEN "cleanup" ELSE "cleanup_incomplete"
          /\ R' = cleanup(A, keep_completeness)
    /\ same_object' = returns_argument("cleanup", A)
    /\ UNCHANGED <<A, B, swapped, designVars, storeVars, retryVars, procVars>>

TryInversionFix ==
    /\ call = "none"
    /\ call' = "try_inversion_fix"
    /\ R' = inverted(A)
    /\ swapped' = A
    /\ UNCHANGED <<A, B, designVars, storeVars, retryVars, identityVars, procVars>>

NextEngine == Minimize \/ Complete \/ Invert \/ Cleanup \/ TryInversionFix

SpecEngine == InitEngine /\ [][NextEngine]_vars

-----------------------------------------------------------------------------
(* SpecMinimize: minimize applied to one three-state DFA over two symbols *)

InitMinimize ==
    /\ call = "none"
    /\ A \in DFAsOver({q0, q1, s1}, <<"a", "b">>)
    /\ B = NoDFA
    /\ R = NoDFA
    /\ swapped = NoDFA
    /\ design_spec = NoSpec
    /\ architect = ArchitectAgent(<<>>, DEFAULT_MAX_PRODUCT_STATES, TRUE)
    /\ exception = "none"
    /\ returned = NotReturned
    /\ dfa_cache = DFACache(<<>>, "v1", "patterns")
    /\ history = <<>>
    /\ attempts = <<>>
    /\ same_object = FALSE
    /\ workers = <<>>
    /\ owner = NoOwner

NextMinimize == Minimize

SpecMinimize == InitMinimize /\ [][NextMinimize]_vars

-----------------------------------------------------------------------------
(* SpecRefine: minimize, pass by pass of its `while changed` loop *)

InitRefine ==
    /\ call = "none"
    /\ A \in InputDFAs(NamePool, Alphabets, MaxSize)
    /\ B = NoDFA
    /\ R = NoDFA
    /\ swapped = NoDFA
    /\ design_spec = NoSpec
    /\ architect = ArchitectAgent(<<>>, DEFAULT_MAX_PRODUCT_STATES, TRUE)
    /\ exception = "none"
    /\ returned = NotReturned
    /\ dfa_cache = DFACache(<<>>, "v1", "patterns")
    /\ history = <<>>
    /\ attempts = <<>>
    /\ same_object = FALSE
    /\ workers = <<>>
    /\ owner = NoOwner

\* steps 1 and 2: the reachable states, split into accepting and rejecting
Partition ==
    /\ call = "none"
    /\ call' = "refine"
    /\ history' = <<InitialPartitions(A)>>
    /\ UNCHANGED <<A, B, R, swapped, designVars, returned, dfa_cache, retryVars,
                   identityVars, procVars>>

\* one pass of the loop that found `changed`: partitions = new_partitions
RefinePass ==
    /\ call = "refine"
    /\ changed(A, history[Len(history)])
    /\ history' = Append(history, RefineRound(A, history[Len(history)]))
    /\ UNCHANGED <<call, A, B, R, swapped, designVars, returned, dfa_cache, retryVars,
                   identityVars, procVars>>

\* the pass that splits no block ends the loop; step 4 reconstructs the DFA
RefineDone ==
    /\ call = "refine"
    /\ ~changed(A, history[Len(history)])
    /\ call' = "minimized"
    /\ R' = Reconstruct(A, history[Len(history)])
    /\ UNCHANGED <<A, B, swapped, designVars, storeVars, retryVars, identityVars, procVars>>

NextRefine == Partition \/ RefinePass \/ RefineDone

SpecRefine == InitRefine /\ [][NextRefine]_vars

-----------------------------------------------------------------------------
(* SpecWorkers: design() on atomic specs in several worker processes, each with
   its own ArchitectAgent, all on the one cache directory.  The store is the cache
   of `architect`; cache.get and cache.set are the steps that interleave *)

\* the atomic specs the workers are handed: kinds whose builder succeeds, the same
\* key under two alphabet orders, a target the builder fails on, a kind without
\* a builder
WorkerSpecs ==
    {LogicSpec("STARTS_WITH", <<"a">>, <<"a", "b">>, <<>>),
     LogicSpec("STARTS_WITH", <<"a">>, <<"b", "a">>, <<>>),
     LogicSpec("CONTAINS", <<"a", "b">>, <<"a", "b">>, <<>>),
     LogicSpec("DIVISIBLE_BY", <<"2">>, <<"0", "1">>, <<>>),
     LogicSpec("DIVISIBLE_BY", <<"2">>, <<>>, <<>>),
     LogicSpec("DIVISIBLE_BY", None, <<"0", "1">>, <<>>),
     LogicSpec("PRODUCT_ODD", None, <<"0", "1">>, <<>>)}

\* the cache key of an atomic spec
Key(spec) == get_atomic_spec_hash(spec.logic_type, OrEmpty(spec.target), AlphabetTuple(spec))

\* design(spec) in a process of its own that sees the store as `seen`
Solo(seen, spec) ==
    design(ArchitectAgent(seen, DEFAULT_MAX_PRODUCT_STATES, TRUE), spec)

\* a worker before its design() call
Worker(spec) ==
    [pc |-> "start", spec |-> spec, seen |-> <<>>, dfa |-> NoDFA, error |-> "none"]

InitWorkers ==
    /\ call = "none"
    /\ A = NoDFA
    /\ B = NoDFA
    /\ R = NoDFA
    /\ swapped = NoDFA
    /\ design_spec = NoSpec
    /\ architect = ArchitectAgent(<<>>, DEFAULT_MAX_PRODUCT_STATES, TRUE)
    /\ exception = "none"
    /\ returned = NotReturned
    /\ dfa_cache = DFACache(<<>>, "v1", "patterns")
    /\ history = <<>>
    /\ attempts = <<>>
    /\ same_object = FALSE
    /\ workers \in [1..NWorkers -> {Worker(spec) : spec \in WorkerSpecs}]
    /\ owner = NoOwner

workerFrame == <<call, A, B, R, swapped, design_spec, exception, storeVars,
                 retryVars, identityVars, owner>>

\* worker w is left with what the store holds under its key: self.cache.get(cache_key)
Got(w, store) ==
    /\ workers' = [workers EXCEPT ![w].seen = [k \in DOMAIN store \cap {Key(workers[w].spec)} |-> store[k]],
                                  ![w].pc = IF Key(workers[w].spec) \in DOMAIN store
                                            THEN "hit" ELSE "miss"]
    /\ UNCHANGED architect

\* design, "Try cache first"
WorkerGet ==
    /\ \E w \in 1..NWorkers :
          /\ workers[w].pc = "start"
          /\ Got(w, architect.cache)
    /\ UNCHANGED workerFrame

\* the store after worker w's miss, given the outcome r of the design call that
\* started from the miss: what that call wrote replaces what the store held
Wrote(w, r) ==
    /\ architect' = [architect EXCEPT !.cache =
                        [k \in DOMAIN @ \cup DOMAIN r.self.cache |->
                            IF k \in DOMAIN r.self.cache THEN r.self.cache[k] ELSE @[k]]]
    /\ workers' = [workers EXCEPT ![w].pc = "wrote"]

\* design, "Cache miss - build and store": _build_atomic_dfa, then
\* self.cache.set(cache_key, json_data) when the builder returned a tuple
WorkerSet ==
    /\ \E w \in 1..NWorkers :
          /\ workers[w].pc = "miss"
          /\ Wrote(w, Solo(<<>>, workers[w].spec))
    /\ UNCHANGED workerFrame

\* worker w ends with the outcome r of its design call
Finished(w, r) ==
    /\ workers' = [workers EXCEPT ![w].pc = "done", ![w].dfa = r.dfa, ![w].error = r.error]
    /\ UNCHANGED architect

\* design returns: DFA(**cached) on the hit, DFA(**result_dict) or the non-cached
\* fallback after the miss
WorkerReturn ==
    /\ \E w \in 1..NWorkers :
          /\ workers[w].pc \in {"hit", "wrote"}
          /\ Finished(w, Solo(workers[w].seen, workers[w].spec))
    /\ UNCHANGED workerFrame

NextWorkers == WorkerGet \/ WorkerSet \/ WorkerReturn

SpecWorkers == InitWorkers /\ [][NextWorkers]_vars

-----------------------------------------------------------------------------
(* SpecOwners: the life of a DFAGeneratorSystem and of the cache handle its
   ArchitectAgent opens, in a `with` block and in a batch worker *)

\* an owner about to construct its system: a `with DFAGeneratorSystem()` block whose
\* body raises or not, or process_test_chunk_serialized with the cases of its
\* chunk, each of which raises or not
Owners ==
    {[kind |-> "with", pc |-> "new", handle |-> "none", exc |-> "none",
      closed_by |-> "none", body |-> <<b>>, results |-> <<>>] : b \in {"ok", "raise"}}
    \cup {[kind |-> "worker", pc |-> "new", handle |-> "none", exc |-> "none",
            closed_by |-> "none", body |-> chunk, results |-> <<>>] :
               chunk \in UNION {[1..k -> {"ok", "raise"}] : k \in 0..MaxCases}}

InitOwners ==
    /\ call = "none"
    /\ A = NoDFA
    /\ B = NoDFA
    /\ R = NoDFA
    /\ swapped = NoDFA
    /\ design_spec = NoSpec
    /\ architect = ArchitectAgent(<<>>, DEFAULT_MAX_PRODUCT_STATES, TRUE)
    /\ exception = "none"
    /\ returned = NotReturned
    /\ dfa_cache = DFACache(<<>>, "v1", "patterns")
    /\ history = <<>>
    /\ attempts = <<>>
    /\ same_object = FALSE
    /\ workers = <<>>
    /\ owner \in Owners

ownerFrame == <<call, A, B, R, swapped, designVars, storeVars, retryVars, identityVars,
                workers>>

\* DFAGeneratorSystem.__init__: the ArchitectAgent opens the diskcache
Construct ==
    /\ owner.pc = "new"
    /\ owner' = [owner EXCEPT !.handle = "open", !.pc = "body"]
    /\ UNCHANGED ownerFrame

\* DFAGeneratorSystem.close: self.architect.cache.close()
close(self) == [self EXCEPT !.handle = "closed", !.closed_by = "close"]

\* the body of the `with` block runs to its end or raises
WithBody ==
    /\ owner.kind = "with"
    /\ owner.pc = "body"
    /\ owner' = [owner EXCEPT !.exc = IF owner.body[1] = "raise" THEN "Exception" ELSE "none",
                              !.pc = "exit"]
    /\ UNCHANGED ownerFrame

\* DFAGeneratorSystem.__exit__: self.close(), then `return False`, which lets the
\* exception of the body go on to the caller
Exit ==
    /\ owner.kind = "with"
    /\ owner.pc = "exit"
    /\ owner' = [close(owner) EXCEPT !.pc = "finished"]
    /\ UNCHANGED ownerFrame

\* process_test_chunk_serialized, one pass of `for idx, case in enumerate(chunk)`:
\* an exception of the case is caught and recorded as an ERROR result
WorkerCase ==
    /\ owner.kind = "worker"
    /\ owner.pc = "body"
    /\ owner.body # <<>>
    /\ owner' = [owner EXCEPT !.body = Tail(@),
                              !.results = Append(@, IF owner.body[1] = "raise"
                                                    THEN "ERROR" ELSE "PASS")]
    /\ UNCHANGED ownerFrame

\* process_test_chunk_serialized, `return results`: no close() and no `with`; the
\* local `system` is dropped, and whether and when DFAGeneratorSystem.__del__ then
\* runs is up to the interpreter
WorkerFinish ==
    /\ owner.kind = "worker"
    /\ owner.pc = "body"
    /\ owner.body = <<>>
    /\ \E del_runs \in BOOLEAN :
          owner' = IF del_runs
                   THEN [owner EXCEPT !.pc = "finished", !.handle = "closed",
                                      !.closed_by = "__del__"]
                   ELSE [owner EXCEPT !.pc = "finished"]
    /\ UNCHANGED ownerFrame

NextOwners == Construct \/ WithBody \/ Exit \/ WorkerCase \/ WorkerFinish

SpecOwners == InitOwners /\ [][NextOwners]_vars

-----------------------------------------------------------------------------
(* SpecCombine: combine applied to two input DFAs *)

\* state names of the operands; q_dead is the name combine gives its implicit sink
PairPool == {q0, q1, q_dead}

\* alphabets of the operands, in both orders
PairAlphabets == {<<"a">>, <<"a", "b">>, <<"b", "a">>}

PairDFAs == InputDFAs(PairPool, PairAlphabets, MaxPairSize)

InitCombine ==
    /\ call = "none"
    /\ A \in PairDFAs
    /\ B \in PairDFAs
    /\ R = NoDFA
    /\ swapped = NoDFA
    /\ design_spec = NoSpec
    /\ architect = ArchitectAgent(<<>>, DEFAULT_MAX_PRODUCT_STATES, TRUE)
    /\ exception = "none"
    /\ returned = NotReturned
    /\ dfa_cache = DFACache(<<>>, "v1", "patterns")
    /\ history = <<>>
    /\ attempts = <<>>
    /\ same_object = FALSE
    /\ workers = <<>>
    /\ owner = NoOwner

\* combine(dfa1, dfa2, operation); a ValueError leaves no result
Combine ==
    /\ call = "none"
    /\ \E operation \in {"AND", "OR"} :
          IF AlphabetMismatch(A, B)
          THEN /\ call' = "ValueError"
               /\ R' = R
          ELSE /\ call' = operation
               /\ R' = combine(A, B, operation)
    /\ same_object' = returns_argument("combine", A)
    /\ UNCHANGED <<A, B, swapped, designVars, storeVars, retryVars, procVars>>

NextCombine == Combine

SpecCombine == InitCombine /\ [][NextCombine]_vars

-----------------------------------------------------------------------------
(* SpecDesign: ArchitectAgent.design applied, once and again, to one LogicSpec *)

\* STARTS_WITH / ENDS_WITH / CONTAINS with every non-empty target over {a, b} of
\* at most MaxTarget characters, over alphabets in sorted and unsorted order, with
\* a symbol the target lacks, without a symbol of the target, and with a repeated
\* symbol (from_prompt derives ['b', 'b'] from the target "b")
PatternSpecs ==
    {LogicSpec(lt, t, a, <<>>) :
        lt \in {"STARTS_WITH", "ENDS_WITH", "CONTAINS"},
        t \in StringsUpTo(<<"a", "b">>, MaxTarget) \ {<<>>},
        a \in {<<"a", "b">>, <<"b", "a">>, <<"a", "b", "c">>, <<"a">>, <<"b", "b">>}}

\* DIVISIBLE_BY k for k in 1..MaxK over two-symbol and three-symbol alphabets
DivisibleSpecs ==
    {LogicSpec("DIVISIBLE_BY", IntStr(k), a, <<>>) :
        k \in 1..MaxK,
        a \in {<<"0", "1">>, <<"1", "0">>, <<"a", "b">>, <<"b", "a">>, <<"0", "1", "2">>}}

\* DIVISIBLE_BY whose target is missing, is not a number, or is the divisor 0
MalformedSpecs ==
    {LogicSpec("DIVISIBLE_BY", t, a, <<>>) :
        t \in {None, <<"a">>, <<"1", "a">>, <<"0">>},
        a \in {<<"0", "1">>, <<"a", "b">>, <<"0", "1", "2">>}}

\* COUNT_MOD "symbol:r:k" for r in 0..MaxK and k in 1..MaxK, and EVEN_COUNT /
\* ODD_COUNT of a symbol, over a binary alphabet in both orders
CountSpecs ==
    {LogicSpec("COUNT_MOD", <<sym, ":">> \o IntStr(r) \o <<":">> \o IntStr(k), a, <<>>) :
        sym \in {"0", "1"}, r \in 0..MaxK, k \in 1..MaxK,
        a \in {<<"0", "1">>, <<"1", "0">>}}
    \cup {LogicSpec(lt, <<sym>>, a, <<>>) :
             lt \in {"EVEN_COUNT", "ODD_COUNT"}, sym \in {"0", "1"},
             a \in {<<"0", "1">>, <<"1", "0">>}}

\* pairs of atomic specs over {a, b} whose languages are disjoint: two STARTS_WITH
\* targets neither of which is a prefix of the other, two different EXACT_LENGTH
\* values, a pattern kind and its negation, an even and an odd count
DisjointPairs ==
    LET leaf(lt, t) == LogicSpec(lt, t, <<"a", "b">>, <<>>)
        targets == StringsUpTo(<<"a", "b">>, 2) \ {<<>>}
    IN  {<<leaf("STARTS_WITH", x), leaf("STARTS_WITH", y)>> :
            <<x, y>> \in {xy \in targets \X targets :
                             ~startswith(xy[1], xy[2]) /\ ~startswith(xy[2], xy[1])}}
        \cup {<<leaf("EXACT_LENGTH", IntStr(m)), leaf("EXACT_LENGTH", IntStr(n))>> :
                 <<m, n>> \in {mn \in (0..MaxK) \X (0..MaxK) : mn[1] # mn[2]}}
        \cup {<<leaf(lt, x), leaf("NOT_" \o lt, x)>> :
                 lt \in {"STARTS_WITH", "ENDS_WITH", "CONTAINS"}, x \in targets}
        \cup {<<leaf("EVEN_COUNT", <<x>>), leaf("ODD_COUNT", <<x>>)>> : x \in {"a", "b"}}

\* AND nodes over a disjoint pair
DisjointSpecs ==
    {LogicSpec("AND", None, a, cs) :
        a \in {<<"a", "b">>, <<"b", "a">>, <<>>}, cs \in DisjointPairs}

\* AND / OR over three pattern leaves
WideSpecs ==
    {LogicSpec(lt, None, <<"a", "b">>, cs) :
        lt \in {"AND", "OR"},
        cs \in [1..3 -> {LogicSpec("STARTS_WITH", <<"a">>, <<"a", "b">>, <<>>),
                         LogicSpec("ENDS_WITH", <<"b">>, <<"b", "a">>, <<>>)}]}

\* the leaves of the composite trees: a cached kind, an inverted kind, a numeric
\* kind, a kind without a builder, and an atomic kind that carries a child
TreeLeaves ==
    {LogicSpec("STARTS_WITH", <<"a">>, <<"a", "b">>, <<>>),
     LogicSpec("ENDS_WITH", <<"b">>, <<"b", "a">>, <<>>),
     LogicSpec("NOT_CONTAINS", <<"a", "b">>, <<"a", "b", "c">>, <<>>),
     LogicSpec("DIVISIBLE_BY", <<"2">>, <<"0", "1">>, <<>>),
     LogicSpec("PRODUCT_ODD", None, <<>>, <<>>),
     LogicSpec("CONTAINS", <<"a">>, <<"0", "1">>,
               <<LogicSpec("CONTAINS", <<"b">>, <<"b">>, <<>>)>>)}

\* AND / OR / NOT nodes over the given alphabets and child lists
Composites(alphabets, childLists) ==
    {LogicSpec(lt, None, a, cs) :
        lt \in {"AND", "OR", "NOT"}, a \in alphabets, cs \in childLists}

\* the lists of at most n elements of S
ListsUpTo(S, n) == UNION {[1..k -> S] : k \in 0..n}

\* the composite nodes that occur as children of a root
InnerNodes ==
    Composites({<<>>, <<"0", "1">>},
               ListsUpTo({l \in TreeLeaves : l.logic_type \in
                             {"STARTS_WITH", "ENDS_WITH", "PRODUCT_ODD"}}, 2) \ {<<>>})

\* the composite trees: up to MaxChildren leaves, or an inner node with a leaf
TreeSpecs ==
    Composites({<<>>, <<"a", "b">>, <<"b", "a">>},
               ListsUpTo(TreeLeaves, MaxChildren)
               \cup {<<m>> : m \in InnerNodes}
               \cup {<<m, l>> : m \in InnerNodes, l \in TreeLeaves}
               \cup {<<l, m>> : l \in TreeLeaves, m \in InnerNodes})

InitDesign ==
    /\ call = "none"
    /\ A = NoDFA
    /\ B = NoDFA
    /\ R = NoDFA
    /\ swapped = NoDFA
    /\ design_spec \in PatternSpecs \cup DivisibleSpecs \cup MalformedSpecs \cup TreeSpecs
                          \cup WideSpecs \cup CountSpecs \cup DisjointSpecs
    /\ \E max_product_states \in {DEFAULT_MAX_PRODUCT_STATES, SmallCeiling},
          cache_up \in BOOLEAN :
          architect = ArchitectAgent(<<>>, max_product_states, cache_up)
    /\ exception = "none"
    /\ returned = NotReturned
    /\ dfa_cache = DFACache(<<>>, "v1", "patterns")
    /\ history = <<>>
    /\ attempts = <<>>
    /\ same_object = FALSE
    /\ workers = <<>>
    /\ owner = NoOwner

\* the outcome r of a design call is taken over
Designed(r) ==
    /\ R' = r.dfa
    /\ architect' = r.self
    /\ exception' = r.error

\* architect.design(spec) on a fresh cache, and once more on the cache it left;
\* the log holds the calls of the latest design
Design ==
    /\ call \in {"none", "design"}
    /\ call' = IF call = "none" THEN "design" ELSE "design_again"
    /\ Designed(design([architect EXCEPT !.log = <<>>], design_spec))
    /\ UNCHANGED <<design_spec, engineVars, storeVars, retryVars, identityVars, procVars>>

NextDesign == Design

SpecDesign == InitDesign /\ [][NextDesign]_vars

-----------------------------------------------------------------------------
(* SpecOps: one operation that returns a DFA: an engine operation or cleanup on *)
(* one DFA, combine on two DFAs, or design on a LogicSpec                       *)

InitOps == InitEngine \/ InitCombine \/ InitDesign

NextOps ==
    \/ A # NoDFA /\ B = NoDFA /\ NextEngine
    \/ B # NoDFA /\ NextCombine
    \/ design_spec # NoSpec /\ NextDesign

SpecOps == InitOps /\ [][NextOps]_vars

-----------------------------------------------------------------------------
(* SpecRun: DFAGeneratorSystem.run on the spec the analyst returned, once and *)
(* again on the cache the first run left                                      *)

\* atomic specs as LogicSpec.from_prompt returns them, with the alphabet it derives
\* from the target: "starts with 'a'", "ends with 'b'", "contains 'ab'", "does not
\* contain 'ba'", "does not start with '0'", "contains '1'" (also the default of
\* analyze), "divisible by 2", "divisible by 0", "product is odd"
PromptLeaves ==
    {LogicSpec("STARTS_WITH", <<"a">>, <<"a", "b">>, <<>>),
     LogicSpec("ENDS_WITH", <<"b">>, <<"b", "b">>, <<>>),
     LogicSpec("CONTAINS", <<"a", "b">>, <<"a", "b">>, <<>>),
     LogicSpec("NOT_CONTAINS", <<"b", "a">>, <<"a", "b">>, <<>>),
     LogicSpec("NOT_STARTS_WITH", <<"0">>, <<"0", "1">>, <<>>),
     LogicSpec("CONTAINS", <<"1">>, <<"0", "1">>, <<>>),
     LogicSpec("DIVISIBLE_BY", <<"2">>, <<"0", "1">>, <<>>),
     LogicSpec("DIVISIBLE_BY", <<"0">>, <<"0", "1">>, <<>>),
     LogicSpec("PRODUCT_ODD", None, <<"0", "1">>, <<>>)}

\* try_local_composite_parse: "X and Y" / "X or Y" over the parts' specs
Composite(op, children) ==
    unify_alphabets_for_spec(LogicSpec(op, None, <<"0", "1">>, children))

\* the specs analyze returns: a leaf, "X op Y", and "X or Y and Z" / "Z and X or Y",
\* which split at " and " first
AnalysedSpecs ==
    LET Pairs(op) == {Composite(op, <<x, y>>) : x \in PromptLeaves, y \in PromptLeaves}
        Inner == {Composite("OR", <<x, y>>) :
                     x \in {l \in PromptLeaves : l.logic_type = "STARTS_WITH"},
                     y \in PromptLeaves}
    IN  PromptLeaves \cup Pairs("AND") \cup Pairs("OR")
        \cup {Composite("AND", <<m, z>>) : m \in Inner, z \in PromptLeaves}
        \cup {Composite("AND", <<z, m>>) : m \in Inner, z \in PromptLeaves}

InitRun ==
    /\ call = "none"
    /\ A = NoDFA
    /\ B = NoDFA
    /\ R = NoDFA
    /\ swapped = NoDFA
    /\ design_spec \in AnalysedSpecs
    /\ \E max_product_states \in {DEFAULT_MAX_PRODUCT_STATES, SmallCeiling} :
          architect = ArchitectAgent(<<>>, max_product_states, TRUE)
    /\ exception = "none"
    /\ returned = NotReturned
    /\ dfa_cache = DFACache(<<>>, "v1", "patterns")
    /\ history = <<>>
    /\ attempts = <<>>
    /\ same_object = FALSE
    /\ workers = <<>>
    /\ owner = NoOwner

\* run, from the design call on, given its outcome r
Ran(r) ==
    /\ R' = r.dfa
    /\ architect' = r.self
    /\ exception' = r.error
    /\ \E x \in run(r, SpecAfterDesign(design_spec)) :
          /\ returned' = x.returned
          /\ history' = x.trace

\* system.run(user_query): analyze returned design_spec at its first attempt (it
\* raises nothing, and neither it nor design raises LLMConnectionError, so each
\* retry loop makes one pass)
Run ==
    /\ call \in {"none", "run"}
    /\ call' = IF call = "none" THEN "run" ELSE "run_again"
    /\ Ran(design([architect EXCEPT !.log = <<>>], design_spec))
    /\ UNCHANGED <<design_spec, engineVars, dfa_cache, retryVars, identityVars, procVars>>

NextRun == Run

SpecRun == InitRun /\ [][NextRun]_vars

-----------------------------------------------------------------------------
(* SpecRepair: DFARepairEngine.auto_repair_dfa on a spec whose kind has a builder *)
(* and a candidate DFA that the validator rejected                                *)

\* specs of kinds that the atomic builders construct
RepairSpecs ==
    {LogicSpec(lt, t, <<"a", "b">>, <<>>) :
        lt \in {"STARTS_WITH", "ENDS_WITH", "CONTAINS"}, t \in {<<"a">>, <<"a", "b">>}}

InitRepair ==
    /\ call = "none"
    /\ design_spec \in RepairSpecs
    /\ A \in {d \in InputDFAs({q0, q1}, {<<"a", "b">>}, MaxSize) :
                ~validate(d, design_spec).is_valid}
    /\ B = NoDFA
    /\ R = NoDFA
    /\ swapped = NoDFA
    /\ architect = ArchitectAgent(<<>>, DEFAULT_MAX_PRODUCT_STATES, TRUE)
    /\ exception = "none"
    /\ returned = NotReturned
    /\ dfa_cache = DFACache(<<>>, "v1", "patterns")
    /\ history = <<>>
    /\ attempts = <<>>
    /\ same_object = FALSE
    /\ workers = <<>>
    /\ owner = NoOwner

\* repair_engine.auto_repair_dfa(data=A.model_dump(), spec=design_spec,
\* validator_instance=validator)
AutoRepair ==
    /\ call = "none"
    /\ call' = "auto_repair_dfa"
    /\ \E x \in auto_repair_dfa(A, design_spec) :
          /\ R' = x.dfa
          /\ history' = [i \in 1..x.calls |-> "_call_ollama"]
    /\ UNCHANGED <<A, B, swapped, designVars, returned, dfa_cache, retryVars, identityVars, procVars>>

NextRepair == AutoRepair

SpecRepair == InitRepair /\ [][NextRepair]_vars

-----------------------------------------------------------------------------
(* SpecRetry: the retry loops of DFAGeneratorSystem.run, one action for each   *)
(* pass of a loop, with an LLM service that may be unreachable or failing       *)

\* the default of analyze, which it returns after the LLM fallback
DefaultSpec == LogicSpec("CONTAINS", <<"1">>, <<"0", "1">>, <<>>)

\* what analyze(user_query) can raise when it returns spec otherwise: call_ollama
\* is reached, outside any try, only by a prompt that neither the local parse nor
\* the heuristic settles, and such a prompt ends in the default
AnalyzeOutcomes(spec) ==
    IF spec = DefaultSpec THEN {"none", "LLMConnectionError", "Exception"} ELSE {"none"}

\* a loop that retries after every exception
Retry_mut(attempt, error) ==
    CASE error = "none" -> [next |-> "break", delay |-> 0]
      [] attempt < max_retries -> [next |-> "again", delay |-> 2 ^ (attempt - 1)]
      [] OTHER -> [next |-> "unavailable", delay |-> 0]

\* one pass of `for attempt in range(1, self.max_retries + 1)`, given what the
\* call raised: leave the loop, sleep and go round again, fall out of the loop
\* with nothing, or return the failure
Retry(attempt, error) ==
    CASE error = "none" -> [next |-> "break", delay |-> 0]
      [] error = "LLMConnectionError" /\ attempt < max_retries ->
            [next |-> "again", delay |-> 2 ^ (attempt - 1)]
      [] error = "LLMConnectionError" -> [next |-> "unavailable", delay |-> 0]
      [] OTHER -> [next |-> "return", delay |-> 0]

\* `return None, False, f"LLM service unavailable after {self.max_retries} retries: {last_error}"`
Unavailable(last_error) ==
    Return(NoDFA, FALSE, Message("LLM service unavailable after 3 retries", <<last_error>>))

\* the loop variable `attempt` of the loop of a step
Attempt(step) ==
    Cardinality({i \in 1..Len(attempts) : attempts[i].step = step}) + 1

\* a pass of a loop is recorded, and the run goes where the pass sends it
Passed(step, error, next, after) ==
    /\ attempts' = Append(attempts, [step |-> step, attempt |-> Attempt(step),
                                     error |-> error, delay |-> next.delay])
    /\ call' = CASE next.next = "break" -> after
                 [] next.next = "again" -> step
                 [] OTHER -> "returned"

InitRetry ==
    /\ call = "none"
    /\ A = NoDFA
    /\ B = NoDFA
    /\ R = NoDFA
    /\ swapped = NoDFA
    /\ design_spec \in AnalysedSpecs
    /\ \E max_product_states \in {DEFAULT_MAX_PRODUCT_STATES, SmallCeiling} :
          architect = ArchitectAgent(<<>>, max_product_states, TRUE)
    /\ exception = "none"
    /\ returned = NotReturned
    /\ dfa_cache = DFACache(<<>>, "v1", "patterns")
    /\ history = <<>>
    /\ attempts = <<>>
    /\ same_object = FALSE
    /\ workers = <<>>
    /\ owner = NoOwner

\* run, step 1: one pass of the analyze loop
Analyze ==
    /\ call \in {"none", "analyze"}
    /\ \E error \in AnalyzeOutcomes(design_spec) :
          /\ Passed("analyze", error, Retry(Attempt("analyze"), error), "architect")
          /\ exception' = error
          /\ returned' = CASE Retry(Attempt("analyze"), error).next = "return" ->
                                Return(NoDFA, FALSE, Message(error, <<>>))
                            [] Retry(Attempt("analyze"), error).next = "unavailable" ->
                                Unavailable(error)
                            [] OTHER -> returned
    /\ UNCHANGED <<R, design_spec, architect, engineVars, dfa_cache, history,
                   identityVars, procVars>>

\* the outcome r of the design call of a pass is taken over; a DFA goes on to
\* steps 3 and 4 of run
Architected(r) ==
    /\ Passed("architect", r.error, Retry(Attempt("architect"), r.error), "returned")
    /\ R' = r.dfa
    /\ architect' = r.self
    /\ exception' = r.error
    /\ \E x \in CASE Retry(Attempt("architect"), r.error).next = "again" ->
                        {Outcome(returned, <<>>)}
                    [] Retry(Attempt("architect"), r.error).next = "unavailable" ->
                        {Outcome(Unavailable(r.error), <<>>)}
                    [] OTHER -> run(r, SpecAfterDesign(design_spec)) :
          /\ returned' = x.returned
          /\ history' = x.trace

\* run, step 2: one pass of the design loop, with the LLM service as it is then
Architect ==
    /\ call = "architect"
    /\ \E llm \in {"none", "down", "error"} :
          Architected(design([architect EXCEPT !.log = <<>>, !.llm = llm], design_spec))
    /\ UNCHANGED <<design_spec, engineVars, dfa_cache, identityVars, procVars>>

NextRetry == Analyze \/ Architect

SpecRetry == InitRetry /\ [][NextRetry]_vars

-----------------------------------------------------------------------------
(* SpecCache: calls on the atomic-DFA cache of the architect and on a DFACache, *)
(* while time passes, the store stops answering, and the version tag changes    *)

\* the (kind, target, alphabet tuple) keys of the atomic cache
AtomicKeys ==
    {<<"STARTS_WITH", <<"a">>, <<"a", "b">>>>, <<"ENDS_WITH", <<"a">>, <<"a", "b">>>>}

\* the DFAs that are stored
CachedDFAs ==
    {build_starts_with_dfa(<<"a", "b">>, <<"a">>),
     build_substring_dfa(<<"a", "b">>, <<"a">>, TRUE, FALSE)}

\* the prompts of the DFACache calls
Prompts == {<<"a">>, <<"A", " ">>, <<"b">>}

\* the version tags and the contents of the config files
Versions == {"v1", "v2"}
Configs == {"patterns", "patterns2"}

\* one entry of the history
Called(store, op, key, d, tag, ok, hit, result) ==
    [store |-> store, op |-> op, key |-> key, d |-> d, tag |-> tag, ok |-> ok,
     hit |-> hit, result |-> result]

\* a store event that is neither a get nor a set
Event(op) == Called("", op, <<>>, NoDFA, <<>>, TRUE, FALSE, NoDFA)

\* DFA(**dict) of what a get returned
Loaded(got) ==
    IF ~got.result_is_none /\ DFAValid(got.result) THEN got.result.dfa ELSE NoDFA

InitCache ==
    /\ call = "none"
    /\ A = NoDFA
    /\ B = NoDFA
    /\ R = NoDFA
    /\ swapped = NoDFA
    /\ design_spec = NoSpec
    /\ architect = ArchitectAgent(<<>>, DEFAULT_MAX_PRODUCT_STATES, TRUE)
    /\ exception = "none"
    /\ returned = NotReturned
    /\ dfa_cache = DFACache(<<>>, "v1", "patterns")
    /\ history = <<>>
    /\ attempts = <<>>
    /\ same_object = FALSE
    /\ workers = <<>>
    /\ owner = NoOwner

\* the variables a call on the atomic cache leaves alone
atomicFrame == <<call, R, design_spec, exception, returned, dfa_cache, engineVars, retryVars, identityVars, procVars>>

\* the variables a call on the DFACache leaves alone
promptFrame == <<call, R, design_spec, exception, returned, architect, engineVars,
                 retryVars, identityVars, procVars>>

\* the outcome of _set_cached_atomic_dfa is taken over
AtomicStored(stored, k, d) ==
    /\ architect' = stored.self
    /\ history' = Append(history,
                         Called("atomic", "set", k, d, <<>>, ~stored.raised, FALSE, NoDFA))

\* architect._set_cached_atomic_dfa(kind, target, alphabet_tuple, dfa_tuple)
AtomicSet ==
    /\ Len(history) < MaxOps
    /\ \E k \in AtomicKeys, d \in CachedDFAs :
          AtomicStored(set_cached_atomic_dfa(architect, k[1], k[2], k[3], Items(d, "dict")),
                       k, d)
    /\ UNCHANGED atomicFrame

\* the outcome of _get_cached_atomic_dfa is taken over
AtomicGot(got, k) ==
    /\ architect' = got.self
    /\ history' = Append(history,
                         Called("atomic", "get", k, NoDFA, <<>>, architect.cache_up,
                                got.self.cache_hits = architect.cache_hits + 1,
                                Loaded(got)))

\* architect._get_cached_atomic_dfa(kind, target, alphabet_tuple)
AtomicGet ==
    /\ Len(history) < MaxOps
    /\ \E k \in AtomicKeys :
          AtomicGot(get_cached_atomic_dfa(architect, k[1], k[2], k[3]), k)
    /\ UNCHANGED atomicFrame

\* the diskcache store stops answering within its timeout, or answers again
StoreTimeout ==
    /\ Len(history) < MaxOps
    /\ architect' = [architect EXCEPT !.cache_up = ~@]
    /\ history' = Append(history, Event("timeout"))
    /\ UNCHANGED atomicFrame

\* 30 days pass: every entry of the atomic cache has expired (expire=3600*24*30),
\* and every row of the DFACache is older than max_age_days
ThirtyDaysPass ==
    /\ Len(history) < MaxOps
    /\ architect' = [architect EXCEPT !.cache = <<>>]
    /\ dfa_cache' = [dfa_cache EXCEPT
                        !.rows = [h \in DOMAIN @ |-> [@[h] EXCEPT !.old = TRUE]]]
    /\ history' = Append(history, Event("expire"))
    /\ UNCHANGED <<call, R, design_spec, exception, returned, engineVars, retryVars, identityVars, procVars>>

\* cache.set(prompt, dfa.model_dump(), validation_result)
PromptSet ==
    /\ Len(history) < MaxOps
    /\ \E prompt \in Prompts, d \in CachedDFAs :
          /\ dfa_cache' = DFACache_set(dfa_cache, prompt, Items(d, "dict"), TRUE, None)
          /\ history' = Append(history,
                               Called("prompt", "set", prompt, d,
                                      compute_config_hash(dfa_cache), TRUE, FALSE, NoDFA))
    /\ UNCHANGED promptFrame

\* the outcome of DFACache.get is taken over
PromptGot(got, prompt) ==
    /\ dfa_cache' = got.self
    /\ history' = Append(history,
                         Called("prompt", "get", prompt, NoDFA,
                                compute_config_hash(dfa_cache), TRUE,
                                got.self.hits = dfa_cache.hits + 1, Loaded(got)))

\* cache.get(prompt)
PromptGet ==
    /\ Len(history) < MaxOps
    /\ \E prompt \in Prompts : PromptGot(DFACache_get(dfa_cache, prompt), prompt)
    /\ UNCHANGED promptFrame

\* cache.invalidate_by_model(model_version)
InvalidateByModel ==
    /\ Len(history) < MaxOps
    /\ \E model_version \in {{}} \cup {{v} : v \in Versions} :
          dfa_cache' = invalidate_by_model(dfa_cache, model_version)
    /\ history' = Append(history, Event("invalidate"))
    /\ UNCHANGED promptFrame

\* cache.invalidate_old_entries()
InvalidateOldEntries ==
    /\ Len(history) < MaxOps
    /\ dfa_cache' = invalidate_old_entries(dfa_cache)
    /\ history' = Append(history, Event("invalidate_old"))
    /\ UNCHANGED promptFrame

\* a DFACache is constructed on the same database under a version tag
Reopen ==
    /\ Len(history) < MaxOps
    /\ \E model_version \in Versions :
          dfa_cache' = DFACache(dfa_cache.rows, model_version, dfa_cache.config)
    /\ history' = Append(history, Event("reopen"))
    /\ UNCHANGED promptFrame

\* a config file that _compute_config_hash reads is edited
EditConfig ==
    /\ Len(history) < MaxOps
    /\ \E config \in Configs \ {dfa_cache.config} :
          dfa_cache' = [dfa_cache EXCEPT !.config = config]
    /\ history' = Append(history, Event("config"))
    /\ UNCHANGED promptFrame

NextCache ==
    \/ AtomicSet
    \/ AtomicGet
    \/ StoreTimeout
    \/ ThirtyDaysPass
    \/ PromptSet
    \/ PromptGet
    \/ InvalidateByModel
    \/ InvalidateOldEntries
    \/ Reopen
    \/ EditConfig

SpecCache == InitCache /\ [][NextCache]_vars

-----------------------------------------------------------------------------
(* Language comparisons used by the properties *)

\* the strings the acceptance properties enumerate
Strings(alphabet) == StringsUpTo(alphabet, MaxLen)

\* C1: on every string over the shared alphabet, combine(A, B, AND) accepts exactly
\* when A and B both accept, and combine(A, B, OR) exactly when A or B accepts (a
\* missing transition of one operand rejects on that operand's side only).
C1_CombineIsProduct ==
    /\ call = "AND" =>
          \A s \in Strings(A.alphabet) : accepts(R, s) = (accepts(A, s) /\ accepts(B, s))
    /\ call = "OR" =>
          \A s \in Strings(A.alphabet) : accepts(R, s) = (accepts(A, s) \/ accepts(B, s))

\* C2: on every string over A's alphabet, invert(A) accepts exactly when A rejects.
C2_InvertIsComplement ==
    call = "invert" =>
        \A s \in Strings(A.alphabet) : accepts(R, s) = ~accepts(A, s)

C4_CleanupPreservesLanguage ==
    call = "cleanup" =>
        \A s \in Strings(A.alphabet) : accepts(R, s) = accepts(A, s)

\* C9: whenever an operation has swapped the accepting and non-accepting states of
\* a DFA, that DFA had a transition for every state and symbol.
C9_SwapOnlyAfterCompletion ==
    call \in {"invert", "try_inversion_fix"} => ~missing(swapped)

\* the strings over the alphabet of the designed spec that the design properties
\* enumerate
DesignStrings == StringsUpTo(OrBinary(design_spec.alphabet), MaxInput)

\* C5: for STARTS_WITH, ENDS_WITH and CONTAINS with a non-empty target t, design
\* returns a DFA that accepts a string over the alphabet exactly when the string
\* starts with, ends with or contains t; the ENDS_WITH DFA accepts in the full-match
\* state only. This holds on the cache miss and on the cache hit.
C5_PatternDFAMatchesTruth ==
    (call \in {"design", "design_again"} /\ design_spec \in PatternSpecs) =>
        /\ exception = "none"
        /\ \A s \in DesignStrings :
              accepts(R, s) =
                  CASE design_spec.logic_type = "STARTS_WITH" ->
                           startswith(s, design_spec.target)
                    [] design_spec.logic_type = "ENDS_WITH" ->
                           endswith(s, design_spec.target)
                    [] OTHER -> contains(s, design_spec.target)
        /\ design_spec.logic_type = "ENDS_WITH" =>
              R.accept_states = <<qname(Len(design_spec.target))>>

\* ENDS_WITH "aba" was designed: the DFA accepts "ababa", whose second match
\* overlaps the first, and rejects "abab", which holds a full match before its end
C5_Witness ==
    /\ call = "design"
    /\ design_spec = LogicSpec("ENDS_WITH", <<"a", "b", "a">>, <<"a", "b">>, <<>>)
    /\ exception = "none"
    /\ accepts(R, <<"a", "b", "a", "b", "a">>)
    /\ ~accepts(R, <<"a", "b", "a", "b">>)

\* C6: for DIVISIBLE_BY k with k >= 1, the DFA that design returns and get_truth
\* agree on every string over the alphabet of the spec.
C6_DivisibleDFAMatchesGetTruth ==
    (call \in {"design", "design_again"} /\ design_spec \in DivisibleSpecs) =>
        /\ exception = "none"
        /\ \A s \in DesignStrings : accepts(R, s) = get_truth(s, design_spec)

\* every node of the tree carries the alphabet
RECURSIVE Carries(_, _)
Carries(spec, alphabet) ==
    /\ spec.alphabet = alphabet
    /\ \A i \in 1..Len(spec.children) : Carries(spec.children[i], alphabet)

\* C10: during design of a tree, every child handed to design carries, in each
\* node of its subtree, the alphabet of the root (['0', '1'] for a root without
\* one); every pair of DFAs handed to combine has set-equal alphabets; and design
\* does not end with an alphabet mismatch.
C10_AlphabetPropagated ==
    call \in {"design", "design_again"} =>
        /\ \A i \in 1..Len(architect.log) :
              LET e == architect.log[i] IN
              /\ e.op = "design" =>
                    /\ e.alphabet = OrBinary(design_spec.alphabet)
                    /\ Carries(e.spec, e.alphabet)
              /\ e.op = "combine" => Range(e.alphabet) = Range(e.other)
        /\ exception # "ValueError: Alphabet Mismatch"

\* a root whose child is a composite with another alphabet, over a grandchild
\* with a third one, was designed: the grandchild was built and two DFAs combined
C10_Witness ==
    /\ call = "design"
    /\ exception = "none"
    /\ design_spec.logic_type \in {"AND", "OR"}
    /\ \E i \in 1..Len(design_spec.children) :
          LET m == design_spec.children[i] IN
          /\ m.logic_type = "NOT"
          /\ m.alphabet # design_spec.alphabet
          /\ \E j \in 1..Len(m.children) :
                m.children[j].alphabet \notin {m.alphabet, design_spec.alphabet}
    /\ \E i \in 1..Len(architect.log) : architect.log[i].op = "combine"
    /\ \E i \in 1..Len(architect.log) :
          /\ architect.log[i].op = "design"
          /\ architect.log[i].spec.children = <<>>

\* the estimate of design's AND/OR branch exceeds the ceiling for this node
OverCeiling(spec, ceiling) ==
    LET flat == flatten_children(spec)
        estimated[i \in 0..Len(flat)] ==
            IF i = 0 THEN 1
            ELSE estimated[i - 1] * max(1, estimate_states_for_spec(flat[i]))
    IN  /\ spec.logic_type \in {"AND", "OR"}
        /\ \E i \in 1..Len(flat) : estimated[i] > ceiling

\* C11: design hands combine no two DFAs whose state counts multiply to more than
\* max_product_states; a design that ends with the estimate error or with the
\* intermediate-size error returns no DFA; and a composite node whose estimate
\* exceeds the ceiling raises before any of its children is built (no call is
\* logged after the node was entered).
C11_SizeCeiling ==
    call \in {"design", "design_again"} =>
        /\ \A i \in 1..Len(architect.log) :
              LET e == architect.log[i] IN
              /\ e.op = "combine" => e.sizes[1] * e.sizes[2] <= architect.max_product_states
              /\ e.op = "design" /\ OverCeiling(e.spec, architect.max_product_states) =>
                    /\ i = Len(architect.log)
                    /\ exception = "ValueError: Product size estimate too large"
        /\ OverCeiling(design_spec, architect.max_product_states) =>
              /\ architect.log = <<>>
              /\ exception = "ValueError: Product size estimate too large"
        /\ exception \in {"ValueError: Product size estimate too large",
                          "ValueError: Intermediate product would exceed safe size"} =>
              R = NoDFA

\* a tree whose estimate is within the ceiling was designed, its children were
\* built, and the product of two of the DFAs built would have exceeded the
\* ceiling: design raised instead of combining them
C11_Witness ==
    /\ call = "design"
    /\ ~OverCeiling(design_spec, architect.max_product_states)
    /\ exception = "ValueError: Intermediate product would exceed safe size"
    /\ \E i \in 1..Len(architect.log) : architect.log[i].op = "design"
    /\ R = NoDFA

\* C12: each loop of run makes at most max_retries passes; a pass after the first
\* follows a pass of the same loop that raised LLMConnectionError and slept
\* 2^(attempt-1) seconds; a pass that raised any other exception is the last one,
\* and run returned (None, False, str(e)); and a pass number max_retries that
\* raised LLMConnectionError is the last one, and run returned the "service
\* unavailable" reason.
C12_BoundedRetry ==
    \A i \in 1..Len(attempts) :
        LET e == attempts[i] IN
        /\ e.attempt <= max_retries
        /\ e.attempt > 1 =>
              /\ i > 1
              /\ attempts[i - 1].step = e.step
              /\ attempts[i - 1].attempt = e.attempt - 1
              /\ attempts[i - 1].error = "LLMConnectionError"
              /\ attempts[i - 1].delay = 2 ^ (attempts[i - 1].attempt - 1)
        /\ e.error \notin {"none", "LLMConnectionError"} =>
              /\ i = Len(attempts)
              /\ call = "returned"
              /\ returned = Return(NoDFA, FALSE, Message(e.error, <<>>))
        /\ e.error = "LLMConnectionError" /\ e.attempt = max_retries =>
              /\ i = Len(attempts)
              /\ call = "returned"
              /\ ~returned.is_valid
              /\ returned.dfa_obj = NoDFA
              /\ returned.error_msg.text = "LLM service unavailable after 3 retries"

\* analyze returned a spec at once, and design failed max_retries times for want
\* of the service: run slept 1 s and 2 s between the passes and ended with the
\* "service unavailable" reason
C12_Witness ==
    /\ call = "returned"
    /\ Len(attempts) = 1 + max_retries
    /\ attempts[1].step = "analyze" /\ attempts[1].error = "none"
    /\ attempts[1 + max_retries].step = "architect"
    /\ attempts[1 + max_retries].error = "LLMConnectionError"
    /\ [i \in 1..Len(attempts) |-> attempts[i].delay] = <<0, 1, 2, 0>>
    /\ returned.error_msg.text = "LLM service unavailable after 3 retries"

\* C13: in a run whose designed DFA failed validation, no request goes to the LLM
\* service between that validation and the validation of the repaired DFA.
C13_NoServiceCallInRepair ==
    call \in {"run", "run_again"} =>
        \A i \in 1..Len(history) : history[i] # "_call_ollama"

\* C14: for a spec of a kind with a builder and a candidate that failed
\* validation, the DFA auto_repair_dfa returns accepts exactly the strings of the
\* spec's language, whatever the candidate's states and transitions were.
C14_RepairRebuilds ==
    call = "auto_repair_dfa" =>
        \A s \in Strings(design_spec.alphabet) : accepts(R, s) = get_truth(s, design_spec)

\* C15: a design call in which a write to the atomic cache failed ends with an
\* exception and returns no DFA.
C15_WriteFailureFatal ==
    (/\ call \in {"design", "design_again"}
     /\ \E i \in 1..Len(architect.log) :
           architect.log[i].op = "RuntimeError: CACHE WRITE FAILED") =>
        /\ exception # "none"
        /\ R = NoDFA

\* C16: a design call that reached the fallback for a spec whose kind no builder
\* branch matches does not end as an ordinary return of a DFA: its outcome tells
\* the caller that no rule built the DFA.
C16_FallbackReported ==
    (/\ call \in {"design", "design_again"}
     /\ \E i \in 1..Len(architect.log) :
           /\ architect.log[i].op = "call_ollama"
           /\ AtomicBuilder(architect.log[i].spec.logic_type,
                            OrEmpty(architect.log[i].spec.target),
                            architect.log[i].alphabet).outcome = "none") =>
        exception # "none"

\* C17: a design call on a DIVISIBLE_BY spec whose target is missing, is not a
\* number or is 0 ends with an exception and yields no DFA.
C17_MalformedTargetRejected ==
    (/\ call \in {"design", "design_again"}
     /\ design_spec.logic_type = "DIVISIBLE_BY"
     /\ \/ ~IsInt(OrEmpty(design_spec.target))
        \/ int(OrEmpty(design_spec.target), 10) = 0) =>
        /\ exception # "none"
        /\ R = NoDFA

\* the designed tree as design leaves it: the children carry the root's alphabet
DesignedSpec ==
    [design_spec EXCEPT !.children = PropagateAll(@, OrBinary(design_spec.alphabet))]

\* C18: for an AND / OR spec with n >= 1 children that design built, get_truth
\* yields on every string the conjunction / disjunction of get_truth over all n
\* children, and that is what the designed DFA accepts.
C18_TruthIsNaryProduct ==
    (/\ call \in {"design", "design_again"}
     /\ design_spec.logic_type \in {"AND", "OR"}
     /\ Len(design_spec.children) >= 1
     /\ exception = "none") =>
        \A s \in Strings(OrBinary(design_spec.alphabet)) :
            /\ ~get_truth_raises(s, DesignedSpec)
            /\ get_truth(s, DesignedSpec) =
                  IF design_spec.logic_type = "AND"
                  THEN \A i \in 1..Len(DesignedSpec.children) :
                          get_truth(s, DesignedSpec.children[i])
                  ELSE \E i \in 1..Len(DesignedSpec.children) :
                          get_truth(s, DesignedSpec.children[i])
            /\ get_truth(s, DesignedSpec) = accepts(R, s)

\* C19: for COUNT_MOD "symbol:r:k", EVEN_COUNT and ODD_COUNT design returns a DFA
\* that accepts a string over the alphabet exactly when get_truth holds for it.
C19_CountDFAMatchesTruth ==
    (call \in {"design", "design_again"} /\ design_spec \in CountSpecs) =>
        /\ exception = "none"
        /\ \A s \in Strings(design_spec.alphabet) : accepts(R, s) = get_truth(s, design_spec)

\* C20: minimize applied to the DFA that minimize returned yields a DFA with as
\* many entries in states.
C20_MinimizeIdempotentOnSize ==
    call = "minimize" => Len(minimize(R).states) = Len(R.states)

\* C21: when design returns for an AND node over two atomic children with disjoint
\* languages, the DFA has no accepting state reachable from its start, and accepts
\* no string over the alphabet.
C21_DisjointAndIsEmpty ==
    (/\ call \in {"design", "design_again"}
     /\ design_spec \in DisjointSpecs
     /\ exception = "none") =>
        /\ reachable(R) \cap Range(R.accept_states) = {}
        /\ \A s \in DesignStrings : ~accepts(R, s)

\* STARTS_WITH "a" and STARTS_WITH "b" over <<a, b>>: both children accept some
\* string, combine was called, and design returned a DFA
C21_Witness ==
    /\ call = "design"
    /\ design_spec.logic_type = "AND"
    /\ design_spec.alphabet = <<"a", "b">>
    /\ design_spec \in DisjointSpecs
    /\ design_spec.children[1].logic_type = "STARTS_WITH"
    /\ design_spec.children[1].target = <<"a">>
    /\ design_spec.children[2].target = <<"b">>
    /\ exception = "none"
    /\ R # NoDFA
    /\ \E i \in 1..Len(architect.log) : architect.log[i].op = "combine"

\* the three structural conditions: the start state, every transition target and
\* every accepting state is an entry of states
WellFormed(dfa) ==
    /\ dfa.start_state \in Range(dfa.states)
    /\ \A s \in DOMAIN dfa.transitions : \A c \in DOMAIN dfa.transitions[s] :
          dfa.transitions[s][c] \in Range(dfa.states)
    /\ Range(dfa.accept_states) \subseteq Range(dfa.states)

C25_ResultIsNewValue ==
    [][call = "none" /\ call' \in {"minimize", "complete_dfa", "invert", "cleanup",
                                    "cleanup_incomplete", "AND", "OR"} =>
          /\ A' = A
          /\ B' = B
          /\ ~same_object']_vars

\* C26: in minimize every pass that reports a change leaves more blocks than it
\* found, no partition has more blocks than states reachable from the start, and
\* the loop ends at the first pass that splits no block, with the result minimize
\* returns; the passes number at most the reachable states.
C26_RefinementTerminates ==
    call \in {"refine", "minimized"} =>
        /\ \A i \in 1..(Len(history) - 1) :
              /\ changed(A, history[i])
              /\ Len(history[i + 1]) > Len(history[i])
        /\ \A i \in 1..Len(history) : Len(history[i]) <= Cardinality(reachable(A))
        /\ Len(history) <= max(1, Cardinality(reachable(A)))
        /\ call = "minimized" =>
              /\ ~changed(A, history[Len(history)])
              /\ RefineRound(A, history[Len(history)]) = history[Len(history)]
              /\ R = minimize(A)

\* a minimize that needed two changing passes before the pass that split nothing
C26_Witness ==
    /\ call = "minimized"
    /\ Len(history) = 3
    /\ Len(history[1]) = 1
    /\ Len(history[3]) = 3

\* C27: cleanup with keep_completeness gives every retained state a transition on
\* every symbol; a transition of A that pointed to a dropped state, and a transition
\* A lacked, leads to q_dead, which is not accepting and loops on every symbol;
\* q_dead is added only when some retained state pointed to a dropped state; when
\* no state is reachable and productive the retained states are the reachable ones.
C27_Total ==
    \A state \in Range(R.states) : \A symbol \in Range(R.alphabet) :
        /\ state \in DOMAIN R.transitions
        /\ symbol \in DOMAIN R.transitions[state]
        /\ R.transitions[state][symbol] \in Range(R.states)

C27_DanglingToTrap ==
    \A state \in Range(R.states) \ {q_dead} : \A symbol \in Range(A.alphabet) :
        (\/ state \notin DOMAIN A.transitions
         \/ symbol \notin DOMAIN A.transitions[state]
         \/ A.transitions[state][symbol] \notin Range(R.states)) =>
            R.transitions[state][symbol] = q_dead

C27_TrapIsTrap ==
    (q_dead \in Range(R.states) /\ q_dead \notin useful_states(A)) =>
        /\ q_dead \notin Range(R.accept_states)
        /\ \A symbol \in Range(R.alphabet) : R.transitions[q_dead][symbol] = q_dead

C27_TrapOnlyWhenNeeded ==
    Range(R.states) \ useful_states(A) # {} =>
        \E state \in useful_states(A) : Dests(A, state) \ useful_states(A) # {}

C27_DegenerateKeepsReachable ==
    find_reachable_states(A) \cap find_productive_states(A) = {} =>
        Range(R.states) \ {q_dead} = find_reachable_states(A) \ {q_dead}

C27_CleanupTotalWithTrap ==
    (call = "cleanup" /\ A.states # <<>>) =>
        /\ C27_Total
        /\ C27_DanglingToTrap
        /\ C27_TrapIsTrap
        /\ C27_TrapOnlyWhenNeeded
        /\ C27_DegenerateKeepsReachable

\* C30: cleanup returns the start state it was given, and that state is among the
\* states it retains, so the substitution of the first retained state for a
\* removed start state never happens.
C30_StartStateKept ==
    call \in {"cleanup", "cleanup_incomplete"} =>
        /\ R.start_state = A.start_state
        /\ A.states # <<>> =>
              /\ A.start_state \in useful_states(A)
              /\ A.start_state \in Range(R.states)

\* a cleanup that dropped a state and kept the start state, which is not the
\* first of the retained states
C30_Witness ==
    /\ call = "cleanup"
    /\ Range(A.states) \ Range(R.states) # {}
    /\ find_productive_states(A) # {}
    /\ R.start_state = A.start_state
    /\ R.start_state # R.states[1]

\* C28: for an atomic spec, estimate_states_for_spec is at least the number of
\* states of the DFA design returns for it.
C28_EstimateIsUpperBound ==
    (/\ call = "design"
     /\ design_spec.logic_type \notin {"AND", "OR", "NOT"}
     /\ exception = "none"
     /\ R # NoDFA) =>
        estimate_states_for_spec(design_spec) >= Len(R.states)

\* C29: a design call on an atomic spec that finds the entry an earlier design call
\* on the same spec wrote has the outcome of that earlier call: the same DFA, or
\* the same exception.
C29_CacheTransparent ==
    [][(/\ call = "design"
        /\ call' = "design_again"
        /\ design_spec.logic_type \notin {"AND", "OR", "NOT"}
        /\ architect'.cache_hits > architect.cache_hits) =>
            /\ R' = R
            /\ exception' = exception]_vars

\* the outcome of worker w's design call is the outcome of the same call alone on
\* an empty store
AsBuilt(w) ==
    /\ workers[w].dfa = Solo(<<>>, workers[w].spec).dfa
    /\ workers[w].error = Solo(<<>>, workers[w].spec).error

\* the store holds under the key of worker w's spec nothing, or the entry the
\* call alone would write, and that entry is one DFA(**dict) accepts
EntryAsBuilt(w) ==
    Key(workers[w].spec) \in DOMAIN architect.cache =>
        /\ Key(workers[w].spec) \in DOMAIN Solo(<<>>, workers[w].spec).self.cache
        /\ architect.cache[Key(workers[w].spec)] =
               Solo(<<>>, workers[w].spec).self.cache[Key(workers[w].spec)]
        /\ DFAValid(architect.cache[Key(workers[w].spec)])

\* C23: under every interleaving of the workers' cache.get and cache.set, a worker
\* that has returned holds the DFA the deterministic build gives for its key, the
\* store holds under a key only the entry of that build, and after two workers
\* that both missed on a key have written there is one valid entry under it.
C23_WorkersAgree ==
    workers # <<>> =>
        /\ \A w \in 1..NWorkers : workers[w].pc = "done" => AsBuilt(w)
        /\ \A w \in 1..NWorkers : EntryAsBuilt(w)
        /\ \A v, w \in 1..NWorkers :
              (/\ v # w
               /\ Key(workers[v].spec) = Key(workers[w].spec)
               /\ workers[v].pc \in {"wrote", "done"} /\ workers[v].seen = <<>>
               /\ workers[w].pc \in {"wrote", "done"} /\ workers[w].seen = <<>>
               /\ Solo(<<>>, workers[w].spec).self.cache # <<>>) =>
                  /\ Key(workers[w].spec) \in DOMAIN architect.cache
                  /\ DFAValid(architect.cache[Key(workers[w].spec)])

\* the builder of every worker's spec succeeds
Buildable ==
    \A w \in 1..NWorkers :
        build_atomic_dfa(workers[w].spec.logic_type, OrEmpty(workers[w].spec.target),
                         AlphabetTuple(workers[w].spec)).outcome = "ok"
        /\ DFAValid(build_atomic_dfa(workers[w].spec.logic_type,
                                     OrEmpty(workers[w].spec.target),
                                     AlphabetTuple(workers[w].spec)).d)

\* the same, for workers whose specs the builders succeed on
C23_BuildableWorkersAgree == (workers # <<>> /\ Buildable) => C23_WorkersAgree

\* C24: an owner that has finished has closed its cache handle by a call of
\* close(), whether or not an exception occurred; a `with` block lets the
\* exception of its body through.
C24_OwnerClosesHandle ==
    owner.pc = "finished" =>
        /\ owner.handle = "closed"
        /\ owner.closed_by = "close"
        /\ owner.kind = "with" => (owner.exc = "Exception") = (owner.body[1] = "raise")

\* the same for the `with` block alone
C24_WithBlockCloses == owner.kind = "with" => C24_OwnerClosesHandle

\* C7: when run returns is_valid = True, the DFA it returns passes validate against
\* the analysed spec (as design left it); otherwise it returns is_valid = False with
\* a reason: the failing strings of validate, or the text of the exception.
C7_ValidOnlyWhenValidated ==
    call \in {"run", "run_again"} =>
        /\ returned.is_valid =>
              /\ returned.dfa_obj # NoDFA
              /\ validate(returned.dfa_obj, SpecAfterDesign(design_spec)).is_valid
        /\ ~returned.is_valid =>
              /\ returned.error_msg.text \notin {"", "none", "Passed"}
              /\ returned.error_msg.text = "FAIL" => returned.error_msg.lines # <<>>

\* the designed DFA failed validation and run returned another, repaired DFA as
\* valid
C7_Witness ==
    /\ call = "run"
    /\ exception = "none"
    /\ ~validate(R, SpecAfterDesign(design_spec)).is_valid
    /\ returned.is_valid
    /\ returned.dfa_obj # R

\* the two DFAs accept the same strings
SameLanguage(d1, d2) ==
    \A s \in Strings(d2.alphabet) : accepts(d1, s) = accepts(d2, s)

\* the latest successful set before call i among the calls js
Latest(js) == CHOOSE j \in js : \A k \in js : k <= j

NormalForm(e) == IF e.store = "prompt" THEN lower(strip(e.key)) ELSE e.key

====
